---------------------------- MODULE Spec2Model ----------------------------
(***************************************************************************)
(* Model of the wall-time capture pipeline of the CodSpeed runner:         *)
(*   - the perf-stream parser (parse_perf_file.rs),                        *)
(*   - the path-key table and the artifact writer (naming.rs,              *)
(*     save_artifacts.rs),                                                 *)
(*   - the finalizer (BenchmarkData::save_to, PerfRunner::save_files_to),  *)
(*   - the FIFO service loop (PerfRunner::handle_fifo).                    *)
(*                                                                         *)
(* Strings are sequences of one-character strings, so that basename        *)
(* extraction, key formatting and the special-path tests are computed the  *)
(* way the code computes them.  u64 arithmetic is scaled to WordModulus.     *)
(***************************************************************************)
EXTENDS Integers, Sequences, FiniteSets, TLC

VARIABLES
    \* ---- finalizer control -------------------------------------------
    pc,                     \* position inside save_files_to / save_to
    fifo_data,              \* FifoBenchmarkData of the stored BenchmarkData
    metadata_file,          \* perf.metadata in the profile folder: absent, partial, complete
    perf_map_lines,         \* pid -> the symbol chunks <profile_folder>/perf-<pid>.map holds
    fs,                     \* the host files the finalizer reads (ELF files, capture, /tmp)
    files,                  \* profile folder: file name -> number of writes
    save_result,            \* value returned by BenchmarkData::save_to
    run_result,             \* value returned by PerfRunner::save_files_to
    warnings,               \* number of warn! lines emitted by save_files_to
    \* ---- perf-stream parser ------------------------------------------
    pid_filter,             \* PidFilter (All | TrackedPids(set))
    loaded_modules_by_path, \* the module index
    tracked_pids,           \* MemmapRecordsOutput.tracked_pids
    record,                 \* the record read last by the parser loop
    n_read,                 \* number of records read so far
    included,               \* should_include(record.pid) as evaluated for `record`
    fork_log,               \* every FORK processed, with what the filter held then
    observed_pids,          \* every pid carried by a FORK or MMAP2 record read so far
    last_mmap,              \* (path, pid) -> (address, page_offset) of its last indexed MMAP2
    insertion_order,        \* paths in the order they entered the module index
    elf_calls,              \* per path, how often each ELF extraction ran
    \* ---- artifact writer ---------------------------------------------
    harvest_left,           \* pids the JIT harvest loop has not visited yet
    jit_unwind_data_by_pid, \* result of the JIT harvest
    module_order,           \* order in which the module index HashMap iterates
    path_to_key,            \* HashMap<PathBuf, String> of save_artifacts
    artifacts,              \* SavedArtifacts
    \* ---- key table exercised on its own ------------------------------
    registered,             \* paths in order of first registration
    returned,               \* [path, key] of the last get_or_insert_key call
    \* ---- FIFO service loop -------------------------------------------
    fifo_pc,                \* where handle_fifo_messages stands: poll, read, handle, returned
    child,                  \* the benchmark process: running, or exited with a status
    perf_alive,             \* whether the profiler still answers on its FIFO
    runner_fifo,            \* commands written by the benchmark and not read yet
    n_sent,                 \* number of commands the benchmark has written
    cmd,                    \* the command being serviced
    perf_fifo,              \* the calls made on the profiler FIFO, in order
    responses,              \* the responses on_cmd had written back, in order
    handle_fifo_result,     \* what handle_fifo returned
    \* ---- unwind data codec ---------------------------------------------
    codec_pc,               \* idle, written, parsed
    unwind_written,         \* the UnwindDataCompat that was serialized
    unwind_payload,         \* the bytes of the unwind data file
    unwind_reader,          \* which parse was called: V2 or V3
    unwind_parsed,          \* what the parse returned
    \* ---- PerfRunner ----------------------------------------------------
    benchmark_data,         \* the OnceCell<BenchmarkData> of the PerfRunner
    n_runs,                 \* number of calls of PerfRunner::run so far
    run_returned,           \* what the last call of PerfRunner::run returned
    \* ---- JIT dump reader ------------------------------------------------
    jit_records,            \* the records of the JIT dump being read
    jit_pos,                \* number of records into_unwind_data has read
    current_unwind_info,    \* the unwind-info slot of into_unwind_data
    harvested_unwind_data,  \* the entries into_unwind_data has pushed
    \* ---- Orchestrator::execute ------------------------------------------
    orch_config,            \* what execute reads of the configuration
    orch_pc,                \* the next call of execute / run_executor
    mode_index,             \* index in config.modes of the mode being run
    upload_index,           \* index in completed_runs of the run being uploaded
    completed_runs,         \* the modes whose run_executor returned Ok
    orch_calls,             \* the calls made so far, with their outcome
    orch_result,            \* what execute returned
    \* ---- PerfRunner::setup_environment ----------------------------------
    setup_pc,               \* the next step of setup_environment
    kptr_restrict,          \* kernel.kptr_restrict on the host
    perf_event_paranoid,    \* kernel.perf_event_paranoid on the host
    knob_reads,             \* what sysctl_read returned, in order
    elevated_commands,      \* the commands run with run_with_sudo, in order
    setup_result            \* what setup_environment returned

finalVars  == <<pc, fifo_data, fs, files, save_result, run_result, warnings,
                metadata_file, perf_map_lines>>
parseVars  == <<pid_filter, loaded_modules_by_path, tracked_pids, record, n_read,
                included, fork_log, observed_pids, last_mmap, insertion_order, elf_calls>>
writerVars == <<harvest_left, jit_unwind_data_by_pid, module_order, path_to_key, artifacts>>
keyVars    == <<registered, returned>>
fifoVars   == <<fifo_pc, child, perf_alive, runner_fifo, n_sent, cmd, perf_fifo, responses,
                handle_fifo_result>>
codecVars  == <<codec_pc, unwind_written, unwind_payload, unwind_reader, unwind_parsed>>
cellVars   == <<benchmark_data, n_runs, run_returned>>
jitVars    == <<jit_records, jit_pos, current_unwind_info, harvested_unwind_data>>
orchVars   == <<orch_config, orch_pc, mode_index, upload_index, completed_runs, orch_calls,
                orch_result>>
knobVars   == <<setup_pc, kptr_restrict, perf_event_paranoid, knob_reads, elevated_commands,
                setup_result>>
vars       == <<finalVars, parseVars, writerVars, keyVars, fifoVars, codecVars, cellVars,
                jitVars, orchVars, knobVars>>

---------------------------------------------------------------------------
(* Option<T> *)
None == [some |-> FALSE]
Some(v) == [some |-> TRUE, val |-> v]
IsSome(o) == o.some

(* Result<T, E> *)
Ok(v) == [ok |-> TRUE, val |-> v]
Err(e) == [ok |-> FALSE, err |-> e]

Last(s) == s[Len(s)]
Range(f) == {f[x] : x \in DOMAIN f}

---------------------------------------------------------------------------
(* Strings.  Alphabet lists the characters in byte order.                  *)
Alphabet ==
    <<"$", ".", "/", "0", "1", "2", "3", "4", "5", "6", "7", "8", "9", ":",
      "[", "]", "_", "a", "b", "d", "f", "g", "h", "i", "j", "n", "o", "p", "t", "x", "y">>
Ord(c) == CHOOSE i \in 1..Len(Alphabet) : Alphabet[i] = c

DigitChars == <<"0", "1", "2", "3", "4", "5", "6", "7", "8", "9">>

RECURSIVE ToDecimal(_)
(* format!("{index}") of a usize *)
ToDecimal(n) ==
    IF n < 10 THEN <<DigitChars[n + 1]>>
    ELSE ToDecimal(n \div 10) \o <<DigitChars[(n % 10) + 1]>>

RECURSIVE SplitPath(_, _, _)
(* the '/'-separated pieces of a path, empty pieces included *)
SplitPath(s, cur, acc) ==
    IF s = <<>> THEN Append(acc, cur)
    ELSE IF Head(s) = "/" THEN SplitPath(Tail(s), <<>>, Append(acc, cur))
    ELSE SplitPath(Tail(s), Append(cur, Head(s)), acc)

(* Path::file_name(): the last component when it is a normal one.  Repeated *)
(* separators, a trailing separator and "." pieces are not components;      *)
(* a path that ends in ".." or has no component has no file name.           *)
file_name(path) ==
    LET comps == SelectSeq(SplitPath(path, <<>>, <<>>),
                           LAMBDA c : c # <<>> /\ c # <<".">>)
    IN  IF comps = <<>> \/ Last(comps) = <<".", ".">> THEN None
        ELSE Some(Last(comps))

(* Mutant of indexed_semantic_key: the index is left out of the key. *)
indexed_semantic_key_no_index(index, path) ==
    LET name == file_name(path)
    IN  <<"_", "_">> \o (IF IsSome(name) THEN name.val ELSE <<>>)

(* naming::indexed_semantic_key: format!("{index}__{}", basename) *)
indexed_semantic_key(index, path) ==
    LET name == file_name(path)
    IN  ToDecimal(index) \o <<"_", "_">> \o (IF IsSome(name) THEN name.val ELSE <<>>)

(* Mutant of get_or_insert_key: every key is made with the index 0. *)
get_or_insert_key_first_index(p2k, path) ==
    IF path \in DOMAIN p2k
    THEN [map |-> p2k, key |-> p2k[path]]
    ELSE LET key == indexed_semantic_key(0, path)
         IN  [map |-> [q \in DOMAIN p2k \cup {path} |->
                          IF q = path THEN key ELSE p2k[q]],
              key |-> key]

(* save_artifacts::get_or_insert_key on the table p2k; returns the table   *)
(* after the call and the key handed back.                                  *)
get_or_insert_key(p2k, path) ==
    IF path \in DOMAIN p2k
    THEN [map |-> p2k, key |-> p2k[path]]
    ELSE LET key == indexed_semantic_key(Cardinality(DOMAIN p2k), path)
         IN  [map |-> [q \in DOMAIN p2k \cup {path} |->
                          IF q = path THEN key ELSE p2k[q]],
              key |-> key]

EmptyMap == [q \in {} |-> None]

---------------------------------------------------------------------------
(* Paths used by the model. *)
PathAX   == <<"/", "a", "/", "x">>
PathBX   == <<"/", "b", "/", "x">>
PathAY   == <<"/", "a", "/", "y">>
PathRoot == <<"/">>
PathJitF == <<"j", "i", "t", "_", "f">>
PathJitG == <<"j", "i", "t", "_", "g">>
PathAnon == <<"/", "/", "a", "n", "o", "n">>
PathVdso == <<"[", "a", "]">>
PathOpen == <<"[", "a">>
PathPython == <<"/", "a", "/", "p", "y", "t", "h", "o", "n", "3">>

---------------------------------------------------------------------------
(* Machine words.  u64 is scaled to 16 bits; every address of the model is *)
(* below WordModulus, and wrapping arithmetic wraps at it.                 *)
WordModulus == 2 ^ 16
wrapping_sub(a, b) == (a - b) % WordModulus
wrapping_add(a, b) == (a + b) % WordModulus
saturating_sub(a, b) == IF a >= b THEN a - b ELSE 0

PAGE_SIZE == 4096
PROT_EXEC == 4
HasBit(x, bit) == (x \div bit) % 2 = 1

(* u64::next_multiple_of *)
next_multiple_of(a, m) == IF a % m = 0 THEN a ELSE a + (m - (a % m))

---------------------------------------------------------------------------
(* ELF files on the host.  An ELF file is described by what the readers    *)
(* take from it: its PT_LOAD program headers, its static and dynamic       *)
(* symbol tables and whether it has .eh_frame / .eh_frame_hdr.             *)
Sym(a, s, n) == [addr |-> a, size |-> s, name |-> n]
(* a symbol-table entry that defines nothing: an import, with no section,   *)
(* address 0 and size 0                                                     *)
Undefined(n) == [addr |-> 0, size |-> 0, name |-> n, undefined |-> TRUE]
Seg(off, filesz, vaddr) == [p_offset |-> off, p_filesz |-> filesz, p_vaddr |-> vaddr]

GoodElf ==
    [readable |-> TRUE,
     segments |-> <<Seg(0, 4096, 0), Seg(4096, 4096, 8192)>>,
     symtab   |-> <<Sym(8208, 0, <<"g">>), Sym(8192, 16, <<"f">>)>>,
     dynsym   |-> <<Sym(8192, 16, <<"f">>), Sym(0, 0, <<>>)>>,
     eh_frame |-> TRUE]
(* symbols stripped: only an ARM mapping symbol and an unnamed one remain *)
StrippedElf ==
    [readable |-> TRUE,
     segments |-> <<Seg(0, 4096, 0), Seg(4096, 4096, 8192)>>,
     symtab   |-> <<Sym(8192, 0, <<"$", "x">>)>>,
     dynsym   |-> <<Sym(0, 0, <<>>)>>,
     eh_frame |-> TRUE]
NoEhFrameElf ==
    [readable |-> TRUE,
     segments |-> <<Seg(0, 4096, 0), Seg(4096, 4096, 8192)>>,
     symtab   |-> <<Sym(8192, 16, <<"f">>)>>,
     dynsym   |-> <<>>,
     eh_frame |-> FALSE]
(* a mapped file that is not an ELF object (object::File::parse fails) *)
NotElf ==
    [readable |-> FALSE, segments |-> <<>>, symtab |-> <<>>, dynsym |-> <<>>,
     eh_frame |-> FALSE]

(* std::fs::read + object::File::parse of `path` on the host `files_on_host` *)
read_object(files_on_host, path) ==
    IF path \in DOMAIN files_on_host /\ files_on_host[path].readable
    THEN Ok(files_on_host[path])
    ELSE Err("ElfUnreadable")

(* ARM ELF mapping symbols: $a, $d, $t, $x, alone or followed by ".". *)
is_arm_mapping_symbol(name) ==
    /\ Len(name) >= 2
    /\ name[1] = "$"
    /\ name[2] \in {"a", "d", "t", "x"}
    /\ (Len(name) = 2 \/ name[3] = ".")

(* Mutant of sort_by_addr: the symbols stay in table order *)
sort_by_addr_skipped(symbols) == symbols

RECURSIVE sort_by_addr(_)
(* Vec::sort_by_key(|s| s.addr): a stable sort *)
sort_by_addr(symbols) ==
    IF symbols = <<>> THEN <<>>
    ELSE LET sorted == sort_by_addr(SubSeq(symbols, 1, Len(symbols) - 1))
             s == Last(symbols)
             k == Cardinality({i \in 1..Len(sorted) : sorted[i].addr <= s.addr})
         IN  SubSeq(sorted, 1, k) \o <<s>> \o SubSeq(sorted, k + 1, Len(sorted))

(* Mutant of extend_zero_sized: the last symbol is extended to the next    *)
(* page boundary only                                                      *)
extend_zero_sized_to_boundary(symbols) ==
    [i \in 1..Len(symbols) |->
        IF symbols[i].size # 0 THEN symbols[i]
        ELSE IF i < Len(symbols)
        THEN [symbols[i] EXCEPT !.size = saturating_sub(symbols[i + 1].addr, symbols[i].addr)]
        ELSE [symbols[i] EXCEPT !.size =
                 saturating_sub(next_multiple_of(symbols[i].addr, PAGE_SIZE),
                                symbols[i].addr)]]

(* the zero-size extension loop of from_elf over the sorted symbols *)
extend_zero_sized(symbols) ==
    [i \in 1..Len(symbols) |->
        IF symbols[i].size # 0 THEN symbols[i]
        ELSE IF i < Len(symbols)
        THEN [symbols[i] EXCEPT !.size = saturating_sub(symbols[i + 1].addr, symbols[i].addr)]
        ELSE [symbols[i] EXCEPT !.size =
                 saturating_sub(next_multiple_of(symbols[i].addr, PAGE_SIZE) + PAGE_SIZE,
                                symbols[i].addr)]]

(* Mutant of read_symbols: only the static symbol table is read *)
read_symbols_static_only(object) ==
    [i \in 1..Len(object.symtab) |->
        Sym(object.symtab[i].addr, object.symtab[i].size, object.symtab[i].name)]

(* from_elf: every entry of the static symbol table, then every entry of   *)
(* the dynamic one, becomes a Symbol { addr, size, name }                  *)
read_symbols(object) ==
    LET entries == object.symtab \o object.dynsym
    IN  [i \in 1..Len(entries) |-> Sym(entries[i].addr, entries[i].size, entries[i].name)]

(* ModuleSymbols::from_elf on an ELF object *)
symbols_of_object(object) ==
    LET all      == read_symbols(object)
        named    == SelectSeq(all, LAMBDA s : s.name # <<>> /\ ~is_arm_mapping_symbol(s.name))
        extended == extend_zero_sized(sort_by_addr(named))
        kept     == SelectSeq(extended, LAMBDA s : s.size > 0)
    IN  IF kept = <<>> THEN Err("NoSymbolsFound") ELSE Ok(kept)

(* ModuleSymbols::from_elf(path) *)
from_elf(files_on_host, path) ==
    LET object == read_object(files_on_host, path)
    IN  IF ~object.ok THEN object ELSE symbols_of_object(object.val)

(* elf_helper::compute_load_bias: the PT_LOAD segment whose file range      *)
(* covers runtime_offset gives                                              *)
(*   bias = runtime_start - (p_vaddr + (runtime_offset - p_offset))         *)
elf_helper_compute_load_bias(runtime_start_addr, runtime_end_addr, runtime_offset, object) ==
    LET hits == {i \in 1..Len(object.segments) :
                    /\ object.segments[i].p_offset <= runtime_offset
                    /\ runtime_offset < object.segments[i].p_offset + object.segments[i].p_filesz}
    IN  IF hits = {} THEN Err("NoMatchingSegment")
        ELSE LET seg == object.segments[CHOOSE i \in hits : \A j \in hits : i <= j]
             IN  Ok(wrapping_sub(runtime_start_addr,
                                 wrapping_add(seg.p_vaddr,
                                              wrapping_sub(runtime_offset, seg.p_offset))))

(* Mutant of compute_load_bias: the end address is passed as the start *)
compute_load_bias_from_end(files_on_host, path, runtime_start_addr, runtime_end_addr, runtime_offset) ==
    LET object == read_object(files_on_host, path)
    IN  IF ~object.ok THEN object
        ELSE elf_helper_compute_load_bias(runtime_end_addr, runtime_end_addr,
                                          runtime_offset, object.val)

(* ModuleSymbols::compute_load_bias(path, start, end, offset) *)
compute_load_bias(files_on_host, path, runtime_start_addr, runtime_end_addr, runtime_offset) ==
    LET object == read_object(files_on_host, path)
    IN  IF ~object.ok THEN object
        ELSE elf_helper_compute_load_bias(runtime_start_addr, runtime_end_addr,
                                          runtime_offset, object.val)

(* lowest PT_LOAD p_vaddr *)
base_svma_of(object) ==
    CHOOSE v \in {object.segments[i].p_vaddr : i \in 1..Len(object.segments)} :
        \A i \in 1..Len(object.segments) : v <= object.segments[i].p_vaddr

(* unwind_data::unwind_data_from_elf(path, start, end, build_id, load_bias): *)
(* the module-level UnwindData and the per-process overlay                   *)
unwind_data_from_elf(files_on_host, path, runtime_start_addr, runtime_end_addr, load_bias) ==
    LET object == read_object(files_on_host, path)
    IN  IF ~object.ok THEN object
        ELSE IF ~object.val.eh_frame \/ object.val.segments = <<>> THEN Err("NoUnwindInfo")
        ELSE Ok([unwind_data |->
                    [path |-> path, base_svma |-> base_svma_of(object.val),
                     eh_frame_hdr |-> "elf", eh_frame |-> "elf"],
                 process_unwind_data |->
                    [timestamp |-> None,
                     avma_range |-> <<runtime_start_addr, runtime_end_addr>>,
                     base_avma |-> wrapping_add(base_svma_of(object.val), load_bias)]])

---------------------------------------------------------------------------
(* parse_perf_file.rs: the PID filter *)
PidFilterAll == [kind |-> "All", tracked |-> {}]
PidFilterTrackedPids(set) == [kind |-> "TrackedPids", tracked |-> set]

(* Mutant of should_include: a non-empty tracked set is consulted only for *)
(* its smallest member (the filter is not re-read after forks).            *)
should_include_stale(filter, pid) ==
    \/ filter.kind = "All"
    \/ pid \in filter.tracked /\ \A q \in filter.tracked : pid <= q

(* PidFilter::should_include *)
should_include(filter, pid) ==
    IF filter.kind = "All" THEN TRUE ELSE pid \in filter.tracked

(* Mutant of add_child_if_parent_tracked: the child is tracked whatever the *)
(* parent is.                                                               *)
add_child_always(filter, parent_pid, child_pid) ==
    IF filter.kind = "All" THEN [filter |-> filter, added |-> FALSE]
    ELSE [filter |-> [filter EXCEPT !.tracked = @ \cup {child_pid}],
          added  |-> child_pid \notin filter.tracked]

(* PidFilter::add_child_if_parent_tracked: the filter afterwards and the    *)
(* returned flag (HashSet::insert is true for a new member).                *)
add_child_if_parent_tracked(filter, parent_pid, child_pid) ==
    IF filter.kind = "All" THEN [filter |-> filter, added |-> FALSE]
    ELSE IF parent_pid \in filter.tracked
    THEN [filter |-> [filter EXCEPT !.tracked = @ \cup {child_pid}],
          added  |-> child_pid \notin filter.tracked]
    ELSE [filter |-> filter, added |-> FALSE]

---------------------------------------------------------------------------
(* parse_perf_file.rs: the module index *)
DefaultProcessLoadedModule == [symbols_load_bias |-> None, process_unwind_data |-> None]
DefaultLoadedModule ==
    [module_symbols |-> None, unwind_data |-> None,
     process_loaded_modules |-> [p \in {} |-> DefaultProcessLoadedModule]]

(* LoadedModule::pids *)
pids_of(loaded_module) == DOMAIN loaded_module.process_loaded_modules

(* the special-path tests of process_mmap2_record on the raw path bytes *)
is_anon_path(path_slice) == path_slice = PathAnon
(* Mutant of is_bracketed_path: the closing bracket is compared with "[". *)
is_bracketed_path_typo(path_slice) ==
    /\ path_slice # <<>>
    /\ Head(path_slice) = "["
    /\ Last(path_slice) = "["

is_bracketed_path(path_slice) ==
    /\ path_slice # <<>>
    /\ Head(path_slice) = "["
    /\ Last(path_slice) = "]"

(* Mutant of on_load_bias_error: the entries of the path and of the pid     *)
(* are made with entry().or_default() before the load bias is computed.    *)
on_load_bias_error_after_entry(rec, modules) ==
    LET loaded_module ==
            IF rec.path \in DOMAIN modules THEN modules[rec.path] ELSE DefaultLoadedModule
        entries == loaded_module.process_loaded_modules
    IN  [q \in DOMAIN modules \cup {rec.path} |->
            IF q # rec.path THEN modules[q]
            ELSE [loaded_module EXCEPT !.process_loaded_modules =
                     [p \in DOMAIN entries \cup {rec.pid} |->
                         IF p \in DOMAIN entries THEN entries[p]
                         ELSE DefaultProcessLoadedModule]]]

(* the `Err(e) => { debug!(..); return; }` arm of the load-bias match: the  *)
(* index as process_mmap2_record leaves it                                  *)
on_load_bias_error(rec, modules) == modules

(* `if loaded_module.module_symbols.is_none()` *)
needs_symbols(loaded_module) == ~IsSome(loaded_module.module_symbols)

(* process_mmap2_record(record, loaded_modules_by_path): the index          *)
(* afterwards and the ELF readers that ran, in `calls`.                     *)
process_mmap2_record(files_on_host, rec, modules) ==
    IF ~HasBit(rec.protection, PROT_EXEC) THEN [modules |-> modules, calls |-> {}]
    ELSE IF is_anon_path(rec.path) THEN [modules |-> modules, calls |-> {}]
    ELSE IF is_bracketed_path(rec.path) THEN [modules |-> modules, calls |-> {}]
    ELSE
    LET end_addr == rec.address + rec.length
        load_bias == compute_load_bias(files_on_host, rec.path, rec.address, end_addr,
                                       rec.page_offset)
    IN  IF ~load_bias.ok
        THEN [modules |-> on_load_bias_error(rec, modules), calls |-> {"compute_load_bias"}]
        ELSE
        LET loaded_module ==
                IF rec.path \in DOMAIN modules THEN modules[rec.path]
                ELSE DefaultLoadedModule
            process_loaded_module ==
                IF rec.pid \in DOMAIN loaded_module.process_loaded_modules
                THEN loaded_module.process_loaded_modules[rec.pid]
                ELSE DefaultProcessLoadedModule
            extract == needs_symbols(loaded_module)
            symbols == IF extract THEN from_elf(files_on_host, rec.path) ELSE Err("not called")
            unwind == unwind_data_from_elf(files_on_host, rec.path, rec.address, end_addr,
                                           load_bias.val)
            new_plm ==
                [symbols_load_bias |-> Some(load_bias.val),
                 process_unwind_data |->
                     IF unwind.ok THEN Some(unwind.val.process_unwind_data)
                     ELSE process_loaded_module.process_unwind_data]
            new_module ==
                [module_symbols |->
                     IF extract /\ symbols.ok THEN Some(symbols.val)
                     ELSE loaded_module.module_symbols,
                 unwind_data |->
                     IF unwind.ok THEN Some(unwind.val.unwind_data)
                     ELSE loaded_module.unwind_data,
                 process_loaded_modules |->
                     [p \in DOMAIN loaded_module.process_loaded_modules \cup {rec.pid} |->
                         IF p = rec.pid THEN new_plm
                         ELSE loaded_module.process_loaded_modules[p]]]
        IN  [modules |-> [q \in DOMAIN modules \cup {rec.path} |->
                             IF q = rec.path THEN new_module ELSE modules[q]],
             calls |-> {"compute_load_bias", "unwind_data_from_elf"}
                       \cup (IF extract THEN {"from_elf"} ELSE {})]

(* Mutant of final_tracked_pids: the set of the filter is returned for     *)
(* either filter.                                                          *)
final_tracked_pids_of_filter(filter, modules) == filter.tracked

(* the tracked_pids returned by parse_for_memmap2 *)
final_tracked_pids(filter, modules) ==
    IF filter.kind = "All"
    THEN UNION {pids_of(modules[q]) : q \in DOMAIN modules}
    ELSE filter.tracked

---------------------------------------------------------------------------
(* The pids of the model and the files of the profile folder. *)
Pids == {100, 200, 300}

ExecutionTimestampsFile == [name |-> "execution_timestamps", key |-> <<>>]
PerfMetadataFile == [name |-> "perf.metadata", key |-> <<>>]
PerfMapFile(pid) == [name |-> "perf-<pid>.map", key |-> ToDecimal(pid)]
SymbolsMapFile(key) == [name |-> "<key>.symbols.map", key |-> key]
UnwindDataFile(key) == [name |-> "<key>.unwind_data", key |-> key]

(* one more write of file f in the profile folder *)
Written(folder, f) ==
    [g \in DOMAIN folder \cup {f} |->
        IF g = f THEN (IF f \in DOMAIN folder THEN folder[f] + 1 ELSE 1) ELSE folder[g]]

---------------------------------------------------------------------------
(* jit_dump.rs: a JIT dump is a sequence of records; `corrupt` dumps make  *)
(* JitDumpReader fail.                                                      *)
CodeUnwindingInfo(eh_frame, eh_frame_hdr) ==
    [kind |-> "CodeUnwindingInfo", eh_frame |-> eh_frame, eh_frame_hdr |-> eh_frame_hdr]
CodeLoad(name, vma, code_size, timestamp) ==
    [kind |-> "CodeLoad", function_name |-> name, vma |-> vma, code_size |-> code_size,
     timestamp |-> timestamp]

(* JitDump::into_perf_map: one Symbol per CodeLoad record *)
into_perf_map(dump) ==
    IF dump.corrupt THEN Err("jit dump unreadable")
    ELSE LET loads == SelectSeq(dump.records, LAMBDA r : r.kind = "CodeLoad")
         IN  Ok([i \in 1..Len(loads) |->
                    Sym(loads[i].vma, loads[i].code_size, loads[i].function_name)])

(* the entry pushed for a CodeLoad that found the slot full *)
JitEntry(r, info) ==
    [unwind_data |->
        [path |-> <<"j", "i", "t", "_">> \o r.function_name,
         base_svma |-> 0,
         eh_frame_hdr |-> info.eh_frame_hdr,
         eh_frame |-> info.eh_frame],
     process_unwind_data |->
        [timestamp |-> Some(r.timestamp),
         avma_range |-> <<r.vma, r.vma + r.code_size>>,
         base_avma |-> 0]]

(* Mutant of on_jit_record: the CodeLoad reads the slot and leaves it full *)
on_jit_record_peeking(r, slot, harvested) ==
    IF r.kind = "CodeUnwindingInfo"
    THEN [slot |-> Some([eh_frame |-> r.eh_frame, eh_frame_hdr |-> r.eh_frame_hdr]),
          harvested |-> harvested]
    ELSE IF r.kind = "CodeLoad" /\ IsSome(slot)
    THEN [slot |-> slot, harvested |-> Append(harvested, JitEntry(r, slot.val))]
    ELSE [slot |-> slot, harvested |-> harvested]

(* one turn of the loop of JitDump::into_unwind_data on the record r:      *)
(* `slot` is current_unwind_info before and after, `harvested` is          *)
(* harvested_unwind_data.  A CodeLoad takes the slot (`.take()`), whether  *)
(* it was full or not                                                      *)
on_jit_record(r, slot, harvested) ==
    IF r.kind = "CodeUnwindingInfo"
    THEN [slot |-> Some([eh_frame |-> r.eh_frame, eh_frame_hdr |-> r.eh_frame_hdr]),
          harvested |-> harvested]
    ELSE IF r.kind = "CodeLoad"
    THEN IF ~IsSome(slot) THEN [slot |-> None, harvested |-> harvested]
         ELSE [slot |-> None, harvested |-> Append(harvested, JitEntry(r, slot.val))]
    ELSE [slot |-> slot, harvested |-> harvested]

RECURSIVE harvest_unwind(_, _, _)
(* the loop of JitDump::into_unwind_data: `slot` is current_unwind_info *)
harvest_unwind(records, slot, harvested) ==
    IF records = <<>> THEN harvested
    ELSE LET turn == on_jit_record(Head(records), slot, harvested)
         IN  harvest_unwind(Tail(records), turn.slot, turn.harvested)

(* JitDump::into_unwind_data *)
into_unwind_data(dump) ==
    IF dump.corrupt THEN Err("jit dump unreadable")
    ELSE Ok(harvest_unwind(dump.records, None, <<>>))

---------------------------------------------------------------------------
(* save_artifacts.rs *)

RECURSIVE LexLess(_, _)
(* String::cmp: bytewise lexicographic order *)
LexLess(a, b) ==
    IF b = <<>> THEN FALSE
    ELSE IF a = <<>> THEN TRUE
    ELSE IF Ord(Head(a)) < Ord(Head(b)) THEN TRUE
    ELSE IF Ord(Head(a)) > Ord(Head(b)) THEN FALSE
    ELSE LexLess(Tail(a), Tail(b))

(* Mutant of sort_by_key: the list is left in the order it was built. *)
sort_by_key_skipped(list, keys) == list

(* Vec::sort_by on the keys of a list: a stable sort.  keys[i] is the key  *)
(* of list[i].                                                             *)
sort_by_key(list, keys) ==
    LET before(j, i) == LexLess(keys[j], keys[i]) \/ (keys[j] = keys[i] /\ j < i)
        rank(i) == 1 + Cardinality({j \in 1..Len(list) : before(j, i)})
    IN  [k \in 1..Len(list) |-> list[CHOOSE i \in 1..Len(list) : rank(i) = k]]

RECURSIVE register_in_order(_, _)
(* register_paths over the paths in the order the HashMap yields them *)
register_in_order(p2k, order) ==
    IF order = <<>> THEN p2k
    ELSE register_in_order(get_or_insert_key(p2k, Head(order)).map, Tail(order))

(* register_paths *)
register_paths(p2k, order) == register_in_order(p2k, order)

(* all the orders in which a HashMap with key set S can be iterated *)
IterationOrders(S) ==
    {o \in [1..Cardinality(S) -> S] : \A i, j \in 1..Cardinality(S) : i # j => o[i] # o[j]}

(* the pids that have an entry satisfying `has` in some module of `order` *)
PidsWith(modules, has(_, _)) ==
    {p \in UNION {pids_of(modules[q]) : q \in DOMAIN modules} :
        \E q \in DOMAIN modules : p \in pids_of(modules[q]) /\ has(q, p)}

(* Mutant of symbol_mappings: every PID entry carries the bias of the      *)
(* module's first PID.                                                     *)
symbol_mappings_shared_bias(modules, order, p2k) ==
    LET has(q, p) ==
            /\ IsSome(modules[q].module_symbols)
            /\ p \in pids_of(modules[q])
            /\ IsSome(modules[q].process_loaded_modules[p].symbols_load_bias)
        first(q) == CHOOSE p \in pids_of(modules[q]) : \A r \in pids_of(modules[q]) : p <= r
        list(p) ==
            LET qs == SelectSeq(order, LAMBDA q : has(q, p))
            IN  [i \in 1..Len(qs) |->
                    [perf_map_key |-> p2k[qs[i]],
                     load_bias |->
                        modules[qs[i]].process_loaded_modules[first(qs[i])].symbols_load_bias.val]]
    IN  [p \in PidsWith(modules, has) |->
            sort_by_key(list(p), [i \in 1..Len(list(p)) |-> list(p)[i].perf_map_key])]

(* save_symbols: the per-pid lists of MappedProcessModuleSymbols *)
symbol_mappings(modules, order, p2k) ==
    LET has(q, p) ==
            /\ IsSome(modules[q].module_symbols)
            /\ p \in pids_of(modules[q])
            /\ IsSome(modules[q].process_loaded_modules[p].symbols_load_bias)
        list(p) ==
            LET qs == SelectSeq(order, LAMBDA q : has(q, p))
            IN  [i \in 1..Len(qs) |->
                    [perf_map_key |-> p2k[qs[i]],
                     load_bias |->
                        modules[qs[i]].process_loaded_modules[p].symbols_load_bias.val]]
    IN  [p \in PidsWith(modules, has) |->
            sort_by_key(list(p), [i \in 1..Len(list(p)) |-> list(p)[i].perf_map_key])]

(* save_symbols: the <key>.symbols.map files written *)
symbol_files(modules, p2k) ==
    {SymbolsMapFile(p2k[q]) : q \in {r \in DOMAIN modules : IsSome(modules[r].module_symbols)}}

(* save_symbols, the par_iter().for_each: one task per module that has     *)
(* symbols, writing them to <key>.symbols.map                              *)
symbol_write_tasks(modules, p2k) ==
    [q \in {r \in DOMAIN modules : IsSome(modules[r].module_symbols)} |->
        [target |-> SymbolsMapFile(p2k[q]), contents |-> modules[q].module_symbols.val]]

(* save_unwind_data, the par_iter().for_each: one task per module that has *)
(* unwind data, writing it to <key>.unwind_data                            *)
unwind_write_tasks(modules, p2k) ==
    [q \in {r \in DOMAIN modules : IsSome(modules[r].unwind_data)} |->
        [target |-> UnwindDataFile(p2k[q]), contents |-> modules[q].unwind_data.val]]

(* the schedules of the tasks of T: every task takes two steps, File::create *)
(* and then the write of the contents, and the steps of different tasks      *)
(* interleave in any order                                                   *)
Interleavings(T) ==
    {s \in [1..2 * Cardinality(T) -> T] :
        \A q \in T : Cardinality({i \in DOMAIN s : s[i] = q}) = 2}

(* the files after the first n steps of the schedule s: the first step of  *)
(* a task truncates its target, the second one leaves its contents there   *)
RECURSIVE run_writes(_, _, _)
run_writes(tasks, s, n) ==
    IF n = 0 THEN EmptyMap
    ELSE LET before == run_writes(tasks, s, n - 1)
             task == tasks[s[n]]
             first == \A i \in 1..(n - 1) : s[i] # s[n]
         IN  [f \in DOMAIN before \cup {task.target} |->
                 IF f = task.target THEN (IF first THEN <<>> ELSE task.contents)
                 ELSE before[f]]

(* debug_info::debug_info_by_path: the modules that carry debug info; here *)
(* those whose symbols were extracted                                      *)
debug_info_by_path(modules) ==
    [q \in {r \in DOMAIN modules : IsSome(modules[r].module_symbols)} |->
        [object_path |-> q]]

(* save_debug_info: the per-pid lists of MappedProcessDebugInfo *)
debug_info_mappings(modules, order, p2k) ==
    LET has(q, p) ==
            /\ IsSome(modules[q].module_symbols)
            /\ q \in DOMAIN p2k
            /\ p \in pids_of(modules[q])
            /\ IsSome(modules[q].process_loaded_modules[p].symbols_load_bias)
        list(p) ==
            LET qs == SelectSeq(order, LAMBDA q : has(q, p))
            IN  [i \in 1..Len(qs) |->
                    [debug_info_key |-> p2k[qs[i]],
                     load_bias |->
                        modules[qs[i]].process_loaded_modules[p].symbols_load_bias.val]]
    IN  [p \in PidsWith(modules, has) |->
            sort_by_key(list(p), [i \in 1..Len(list(p)) |-> list(p)[i].debug_info_key])]

(* save_unwind_data: the <key>.unwind_data files written for ELF modules *)
unwind_files(modules, p2k) ==
    {UnwindDataFile(p2k[q]) : q \in {r \in DOMAIN modules : IsSome(modules[r].unwind_data)}}

(* save_unwind_data: the per-pid lists built from the module index, before *)
(* the JIT entries are pushed and before sorting                           *)
elf_unwind_mappings(modules, order, p2k) ==
    LET has(q, p) ==
            /\ IsSome(modules[q].unwind_data)
            /\ p \in pids_of(modules[q])
            /\ IsSome(modules[q].process_loaded_modules[p].process_unwind_data)
        list(p) ==
            LET qs == SelectSeq(order, LAMBDA q : has(q, p))
            IN  [i \in 1..Len(qs) |->
                    [unwind_data_key |-> p2k[qs[i]],
                     inner |-> modules[qs[i]].process_loaded_modules[p].process_unwind_data.val]]
    IN  [p \in PidsWith(modules, has) |-> list(p)]

RECURSIVE push_jit_entries(_, _, _)
(* the JIT loop of save_unwind_data for one pid: st holds the key table,   *)
(* the folder and the per-pid lists                                        *)
push_jit_entries(st, pid, jit_entries) ==
    IF jit_entries = <<>> THEN st
    ELSE LET e == Head(jit_entries)
             out == get_or_insert_key(st.p2k, e.unwind_data.path)
             entry == [unwind_data_key |-> out.key, inner |-> e.process_unwind_data]
             old == IF pid \in DOMAIN st.mappings THEN st.mappings[pid] ELSE <<>>
         IN  push_jit_entries(
                [p2k |-> out.map,
                 folder |-> Written(st.folder, UnwindDataFile(out.key)),
                 mappings |-> [p \in DOMAIN st.mappings \cup {pid} |->
                                  IF p = pid THEN Append(old, entry) ELSE st.mappings[p]]],
                pid, Tail(jit_entries))

RECURSIVE push_jit_pids(_, _, _)
(* the JIT loop of save_unwind_data over the pids in iteration order *)
push_jit_pids(st, jit_by_pid, pid_order) ==
    IF pid_order = <<>> THEN st
    ELSE push_jit_pids(push_jit_entries(st, Head(pid_order), jit_by_pid[Head(pid_order)]),
                       jit_by_pid, Tail(pid_order))

RECURSIVE write_all(_, _)
(* one write of each file of the set *)
write_all(folder, fileset) ==
    IF fileset = {} THEN folder
    ELSE LET f == CHOOSE g \in fileset : TRUE
         IN  write_all(Written(folder, f), fileset \ {f})

(* save_unwind_data: key table, folder and sorted per-pid lists afterwards *)
save_unwind_data(folder, modules, order, jit_by_pid, pid_order, p2k) ==
    LET st0 == [p2k |-> p2k,
                folder |-> write_all(folder, unwind_files(modules, p2k)),
                mappings |-> elf_unwind_mappings(modules, order, p2k)]
        st == push_jit_pids(st0, jit_by_pid, pid_order)
    IN  [p2k |-> st.p2k,
         folder |-> st.folder,
         mappings |-> [p \in DOMAIN st.mappings |->
                          sort_by_key(st.mappings[p],
                                      [i \in 1..Len(st.mappings[p]) |->
                                          st.mappings[p][i].unwind_data_key])]]

(* the built-in ignore list (get_objects_path_to_ignore) *)
get_objects_path_to_ignore == {}

StartsWith(s, prefix) == Len(s) >= Len(prefix) /\ SubSeq(s, 1, Len(prefix)) = prefix

(* collect_ignored_modules: one (path, avma range) entry per (module, pid)  *)
(* hit; the entries are kept per hit, as the Vec keeps duplicates           *)
collect_ignored_modules(modules, order) ==
    LET is_ignored(q) == q \in get_objects_path_to_ignore
        is_python(q) ==
            /\ IsSome(file_name(q))
            /\ StartsWith(file_name(q).val, <<"p", "y", "t", "h", "o", "n">>)
        hit == {<<q, p>> \in (DOMAIN modules) \X Pids :
                    /\ is_ignored(q) \/ is_python(q)
                    /\ p \in pids_of(modules[q])
                    /\ IsSome(modules[q].process_loaded_modules[p].process_unwind_data)}
    IN  [h \in hit |->
            <<h[1], modules[h[1]].process_loaded_modules[h[2]].process_unwind_data.val.avma_range>>]

---------------------------------------------------------------------------
(* Inputs of the model. *)
MaxRecords == 3

ElfPaths == {PathAX, PathBX}

ForkRecord(ppid, pid) == [type |-> "FORK", ppid |-> ppid, pid |-> pid]
Mmap2Record(pid, address, page_offset, protection, path) ==
    [type |-> "MMAP2", pid |-> pid, address |-> address, length |-> PAGE_SIZE,
     page_offset |-> page_offset, protection |-> protection, path |-> path]
NoRecord == [type |-> "NONE"]

(* (address, page_offset) of a mapping: of the first segment, of the       *)
(* second one (mapped below its p_vaddr) and of no segment at all          *)
Mappings == {<<4096, 0>>, <<4096, 4096>>, <<4096, 16384>>}

ForkRecords == {ForkRecord(pp, p) : pp \in Pids, p \in Pids} \ {ForkRecord(p, p) : p \in Pids}
ExecMmap2Records ==
    {Mmap2Record(p, m[1], m[2], 5, PathAX) : p \in {100, 200}, m \in Mappings}
    \cup {Mmap2Record(p, 4096, 0, 5, PathBX) : p \in Pids}
(* not executable, anonymous, bracketed, and a path that is no file *)
OtherMmap2Records ==
    {Mmap2Record(p, 4096, 0, 1, PathAX) : p \in {100, 200}}
    \cup {Mmap2Record(p, 4096, 0, 5, path) : p \in {100, 300}, path \in {PathAnon, PathVdso}}
    \cup {Mmap2Record(100, 4096, 0, 5, PathOpen)}
ParseRecords == ForkRecords \cup ExecMmap2Records \cup OtherMmap2Records

(* what the host holds under each ELF path *)
(* (files named "//anon" and "[a]" exist on the host too)                  *)
HostPaths == ElfPaths \cup {PathAnon, PathVdso}
ElfAssignments ==
    {[q \in HostPaths |-> IF q = PathAX THEN a ELSE GoodElf] :
        a \in {GoodElf, StrippedElf, NoEhFrameElf, NotElf}}
    \cup {[q \in HostPaths |-> IF q = PathBX THEN StrippedElf ELSE GoodElf]}

(* FifoBenchmarkData::is_exec_harness *)
is_exec_harness(data) == data.exec_harness

IntegrationPytest == <<"pytest-codspeed", "4.0.0">>

NoCalls == [from_elf |-> 0, unwind_data_from_elf |-> 0, compute_load_bias |-> 0]
Count(calls, name) == IF name \in calls THEN 1 ELSE 0

EmptySavedArtifacts ==
    [symbol_pid_mappings_by_pid |-> EmptyMap, debug_info |-> EmptyMap,
     mapped_process_debug_info_by_pid |-> EmptyMap,
     mapped_process_unwind_data_by_pid |-> EmptyMap,
     ignored_modules |-> EmptyMap, key_to_path |-> EmptyMap]

---------------------------------------------------------------------------
(* The unwind data codec: UnwindDataCompat under bincode, and the parse    *)
(* functions of UnwindDataV2 and UnwindDataV3.                             *)

(* bound of the codec model: the length of eh_frame_hdr and eh_frame *)
MaxBytes == 1

(* the fields of the three structs, in declaration order, and their types *)
V1Fields == <<"path", "avma_range", "base_avma", "base_svma", "eh_frame_hdr",
              "eh_frame_hdr_svma", "eh_frame", "eh_frame_svma">>
V1Types  == <<"String", "Range", "u64", "u64", "Vec", "Range", "Vec", "Range">>
V2Fields == <<"path", "timestamp", "avma_range", "base_avma", "base_svma", "eh_frame_hdr",
              "eh_frame_hdr_svma", "eh_frame", "eh_frame_svma">>
V2Types  == <<"String", "Option", "Range", "u64", "u64", "Vec", "Range", "Vec", "Range">>
V3Fields == <<"path", "base_svma", "eh_frame_hdr", "eh_frame_hdr_svma", "eh_frame",
              "eh_frame_svma">>
V3Types  == <<"String", "u64", "Vec", "Range", "Vec", "Range">>

FieldsOf(version) == CASE version = 1 -> V1Fields [] version = 2 -> V2Fields [] OTHER -> V3Fields
TypesOf(version)  == CASE version = 1 -> V1Types  [] version = 2 -> V2Types  [] OTHER -> V3Types

(* bincode of one field: an integer is one fixed-width word, a Range its   *)
(* two ends, a Vec<u8> and a String their length and then their bytes, an  *)
(* Option<u64> a tag and then the value if there is one                    *)
serialize_field(type, v) ==
    CASE type = "u64"    -> <<v>>
      [] type = "Range"  -> <<v[1], v[2]>>
      [] type = "Vec"    -> <<Len(v)>> \o v
      [] type = "String" -> <<Len(v)>> \o [i \in 1..Len(v) |-> Ord(v[i])]
      [] OTHER           -> IF IsSome(v) THEN <<1, v.val>> ELSE <<0>>

(* bincode of a struct: its fields one after the other *)
RECURSIVE serialize_fields(_, _, _)
serialize_fields(fields, types, value) ==
    IF fields = <<>> THEN <<>>
    ELSE serialize_field(Head(types), value[Head(fields)])
            \o serialize_fields(Tail(fields), Tail(types), value)

(* bincode::serialize_into on an UnwindDataCompat: the index of the        *)
(* variant, then the struct                                                *)
serialize(compat) ==
    <<compat.version - 1>>
        \o serialize_fields(FieldsOf(compat.version), TypesOf(compat.version), compat.data)

(* what reading one field leaves: the value and the unread input, or the   *)
(* error of an input that ends early or holds an invalid tag or character  *)
Read(v, rest) == [ok |-> TRUE, val |-> v, rest |-> rest]
ReadError == [ok |-> FALSE]

deserialize_field(type, input) ==
    CASE type = "u64" ->
            IF Len(input) >= 1 THEN Read(input[1], Tail(input)) ELSE ReadError
      [] type = "Range" ->
            IF Len(input) >= 2
            THEN Read(<<input[1], input[2]>>, SubSeq(input, 3, Len(input)))
            ELSE ReadError
      [] type = "Vec" ->
            IF Len(input) >= 1 /\ Len(input) - 1 >= input[1]
            THEN Read(SubSeq(input, 2, input[1] + 1), SubSeq(input, input[1] + 2, Len(input)))
            ELSE ReadError
      [] type = "String" ->
            IF /\ Len(input) >= 1
               /\ Len(input) - 1 >= input[1]
               /\ \A i \in 2..(input[1] + 1) : input[i] \in 1..Len(Alphabet)
            THEN Read([i \in 1..input[1] |-> Alphabet[input[i + 1]]],
                      SubSeq(input, input[1] + 2, Len(input)))
            ELSE ReadError
      [] OTHER ->
            IF Len(input) >= 1 /\ input[1] = 0 THEN Read(None, Tail(input))
            ELSE IF Len(input) >= 2 /\ input[1] = 1
                 THEN Read(Some(input[2]), SubSeq(input, 3, Len(input)))
                 ELSE ReadError

(* the fields of a struct read one after the other: the sequence of their  *)
(* values                                                                  *)
RECURSIVE deserialize_fields(_, _)
deserialize_fields(types, input) ==
    IF types = <<>> THEN Read(<<>>, input)
    ELSE LET first == deserialize_field(Head(types), input)
         IN  IF ~first.ok THEN ReadError
             ELSE LET others == deserialize_fields(Tail(types), first.rest)
                  IN  IF ~others.ok THEN ReadError
                      ELSE Read(<<first.val>> \o others.val, others.rest)

(* bincode::deserialize::<UnwindDataCompat>: the variant index selects the *)
(* struct to read; bytes left over are allowed                             *)
deserialize(input) ==
    IF Len(input) = 0 \/ input[1] \notin {0, 1, 2} THEN Err("bincode")
    ELSE LET version == input[1] + 1
             read == deserialize_fields(TypesOf(version), Tail(input))
             fields == FieldsOf(version)
         IN  IF ~read.ok THEN Err("bincode")
             ELSE Ok([version |-> version,
                      data |-> [f \in Range(fields) |->
                                   read.val[CHOOSE i \in 1..Len(fields) : fields[i] = f]]])

(* impl From<UnwindDataV1> for UnwindDataV2 *)
V2FromV1(v1) ==
    [f \in Range(V2Fields) |-> IF f = "timestamp" THEN None ELSE v1[f]]

(* impl From<UnwindDataV2> for UnwindDataV3 *)
V3FromV2(v2) == [f \in Range(V3Fields) |-> v2[f]]

(* UnwindDataV2::parse *)
UnwindDataV2_parse(reader) ==
    LET compat == deserialize(reader)
    IN  IF ~compat.ok THEN compat
        ELSE CASE compat.val.version = 1 -> Ok(V2FromV1(compat.val.data))
               [] compat.val.version = 2 -> Ok(compat.val.data)
               [] OTHER -> Err("Cannot parse V3 unwind data as V2 (missing per-pid fields)")

(* Mutant of UnwindDataV3::parse: a V2 payload is converted with From *)
UnwindDataV3_parse_converting(reader) ==
    LET compat == deserialize(reader)
    IN  IF ~compat.ok THEN compat
        ELSE CASE compat.val.version = 1 ->
                    Err("Cannot parse V1 unwind data as V3 (breaking changes)")
               [] compat.val.version = 2 -> Ok(V3FromV2(compat.val.data))
               [] OTHER -> Ok(compat.val.data)

(* UnwindDataV3::parse *)
UnwindDataV3_parse(reader) ==
    LET compat == deserialize(reader)
    IN  IF ~compat.ok THEN compat
        ELSE CASE compat.val.version = 1 ->
                    Err("Cannot parse V1 unwind data as V3 (breaking changes)")
               [] compat.val.version = 2 ->
                    Err("Cannot parse V2 unwind data as V3 (breaking changes)")
               [] OTHER -> Ok(compat.val.data)

(* the values the codec is run on *)
ByteVecs(n) == UNION {[1..k -> {1, 2}] : k \in 0..n}
CodecPaths == {<<>>, PathAX}
CodecRanges == {<<4096, 8192>>, <<0, 0>>}
CodecTimestamps == {None, Some(0), Some(12345)}

UnwindDataV1s ==
    [path : CodecPaths, avma_range : CodecRanges, base_avma : {4096}, base_svma : {0, 1},
     eh_frame_hdr : ByteVecs(MaxBytes), eh_frame_hdr_svma : {<<256, 512>>},
     eh_frame : ByteVecs(MaxBytes), eh_frame_svma : {<<512, 768>>}]
UnwindDataV2s ==
    [path : CodecPaths, timestamp : CodecTimestamps, avma_range : CodecRanges,
     base_avma : {4096}, base_svma : {0, 1},
     eh_frame_hdr : ByteVecs(MaxBytes), eh_frame_hdr_svma : {<<256, 512>>},
     eh_frame : ByteVecs(MaxBytes), eh_frame_svma : {<<512, 768>>}]
UnwindDataV3s ==
    [path : CodecPaths, base_svma : {0, 1},
     eh_frame_hdr : ByteVecs(MaxBytes), eh_frame_hdr_svma : {<<256, 512>>},
     eh_frame : ByteVecs(MaxBytes), eh_frame_svma : {<<512, 768>>}]

(* no unwind data file is written yet *)
CodecIdle ==
    /\ codec_pc = "idle"
    /\ unwind_written = None
    /\ unwind_payload = <<>>
    /\ unwind_reader = "none"
    /\ unwind_parsed = None

(* a value wrapped in its variant of UnwindDataCompat *)
Compat(version, value) == [version |-> version, data |-> value]

(* a file left by a producer of the first format: UnwindDataCompat::V1 of  *)
(* a value, serialized                                                     *)
UnwindDataV1_written ==
    /\ codec_pc = "idle"
    /\ \E value \in UnwindDataV1s :
          /\ unwind_written' = Some(Compat(1, value))
          /\ unwind_payload' = serialize(Compat(1, value))
    /\ codec_pc' = "written"
    /\ UNCHANGED <<unwind_reader, unwind_parsed>>
    /\ UNCHANGED <<finalVars, parseVars, writerVars, keyVars, fifoVars, cellVars, jitVars, orchVars, knobVars>>

(* UnwindDataV2::to_file: UnwindDataCompat::V2(self.clone()) is           *)
(* serialized into the file                                                *)
UnwindDataV2_to_file ==
    /\ codec_pc = "idle"
    /\ \E value \in UnwindDataV2s :
          /\ unwind_written' = Some(Compat(2, value))
          /\ unwind_payload' = serialize(Compat(2, value))
    /\ codec_pc' = "written"
    /\ UNCHANGED <<unwind_reader, unwind_parsed>>
    /\ UNCHANGED <<finalVars, parseVars, writerVars, keyVars, fifoVars, cellVars, jitVars, orchVars, knobVars>>

(* UnwindDataV3::save_to: UnwindDataCompat::V3(self.clone()) is           *)
(* serialized into the file                                                *)
UnwindDataV3_save_to ==
    /\ codec_pc = "idle"
    /\ \E value \in UnwindDataV3s :
          /\ unwind_written' = Some(Compat(3, value))
          /\ unwind_payload' = serialize(Compat(3, value))
    /\ codec_pc' = "written"
    /\ UNCHANGED <<unwind_reader, unwind_parsed>>
    /\ UNCHANGED <<finalVars, parseVars, writerVars, keyVars, fifoVars, cellVars, jitVars, orchVars, knobVars>>

(* a reader of the second format parses the file *)
ParseAsV2 ==
    /\ codec_pc = "written"
    /\ unwind_parsed' = Some(UnwindDataV2_parse(unwind_payload))
    /\ unwind_reader' = "V2"
    /\ codec_pc' = "parsed"
    /\ UNCHANGED <<unwind_written, unwind_payload>>
    /\ UNCHANGED <<finalVars, parseVars, writerVars, keyVars, fifoVars, cellVars, jitVars, orchVars, knobVars>>

(* a reader of the third format parses the file *)
ParseAsV3 ==
    /\ codec_pc = "written"
    /\ unwind_parsed' = Some(UnwindDataV3_parse(unwind_payload))
    /\ unwind_reader' = "V3"
    /\ codec_pc' = "parsed"
    /\ UNCHANGED <<unwind_written, unwind_payload>>
    /\ UNCHANGED <<finalVars, parseVars, writerVars, keyVars, fifoVars, cellVars, jitVars, orchVars, knobVars>>

---------------------------------------------------------------------------
(* JitDump::into_unwind_data, one record at a time. *)

(* bound of the JIT dump model: the number of records of a dump *)
MaxJitRecords == 4

(* the records of a dump: two unwind-info records, two code loads, and a   *)
(* record of another kind (the `_` arm)                                    *)
JitRecordPool ==
    {CodeUnwindingInfo("eh1", "hdr1"), CodeUnwindingInfo("eh2", "hdr2"),
     CodeLoad(<<"f">>, 256, 64, 7), CodeLoad(<<"g">>, 512, 64, 8),
     [kind |-> "CodeDebugInfo"]}

JitDumps == UNION {[1..k -> JitRecordPool] : k \in 0..MaxJitRecords}

(* no JIT dump is being read *)
JitIdle ==
    /\ jit_records = <<>>
    /\ jit_pos = 0
    /\ current_unwind_info = None
    /\ harvested_unwind_data = <<>>

(* reader.next_record() returns a record and the match handles it *)
JitNextRecord ==
    /\ jit_pos < Len(jit_records)
    /\ LET turn == on_jit_record(jit_records[jit_pos + 1], current_unwind_info,
                                 harvested_unwind_data)
       IN  /\ current_unwind_info' = turn.slot
           /\ harvested_unwind_data' = turn.harvested
    /\ jit_pos' = jit_pos + 1
    /\ UNCHANGED jit_records
    /\ UNCHANGED <<finalVars, parseVars, writerVars, keyVars, fifoVars, codecVars, cellVars, orchVars, knobVars>>

---------------------------------------------------------------------------
(* Orchestrator::execute and run_executor: the calls they make, in order.  *)
(* Every call either returns Ok or fails; a failure is returned by `?`.    *)

(* bound of the orchestrator model: the number of configured modes *)
MaxModes == 2

RunnerModes == {"Simulation", "Walltime", "Memory"}

(* config.modes: up to MaxModes modes, each at most once *)
ModeLists ==
    {l \in UNION {[1..k -> RunnerModes] : k \in 0..MaxModes} :
        \A i, j \in DOMAIN l : i # j => l[i] # l[j]}

(* what execute and run_executor read of the configuration and of the      *)
(* provider: the modes, skip_setup, skip_run, skip_upload, whether the     *)
(* mongodb instrument is set, whether the run environment is Local         *)
OrchConfigs ==
    [modes : ModeLists, skip_setup : BOOLEAN, skip_run : BOOLEAN, skip_upload : BOOLEAN,
     mongodb : BOOLEAN, is_local : BOOLEAN]

(* the calls of one executor that belong to each phase of run_executor *)
SetupCalls == {"setup", "install_mongodb_tracer"}
RunCalls == {"mongo_tracer_start", "run", "mongo_tracer_stop"}

(* run_executor at `if !skip_run`: the first call of the run phase, or the *)
(* return of run_executor                                                  *)
run_phase(config) ==
    IF config.skip_run THEN "returned"
    ELSE IF config.mongodb THEN "mongo_tracer_start" ELSE "run"

(* Mutant of after_ok_in_run_executor: the teardown does not wait for the  *)
(* run phase: with skip_run it is still made                               *)
after_ok_teardown_despite_skip_run(config, call) ==
    CASE call = "context" ->
            IF ~config.skip_setup THEN "setup"
            ELSE IF config.skip_run THEN "teardown" ELSE run_phase(config)
      [] call = "setup" ->
            IF config.mongodb THEN "install_mongodb_tracer"
            ELSE IF config.skip_run THEN "teardown" ELSE run_phase(config)
      [] call = "install_mongodb_tracer" ->
            IF config.skip_run THEN "teardown" ELSE run_phase(config)
      [] call = "mongo_tracer_start" -> "run"
      [] call = "run" -> IF config.mongodb THEN "mongo_tracer_stop" ELSE "teardown"
      [] call = "mongo_tracer_stop" -> "teardown"
      [] call = "teardown" -> "persist_log"
      [] OTHER -> "returned"

(* run_executor: the call that follows a call that returned Ok, or         *)
(* "returned" when run_executor returns Ok.  "context" is                  *)
(* ExecutionContext::new, which execute calls just before run_executor     *)
after_ok_in_run_executor(config, call) ==
    CASE call = "context" -> IF ~config.skip_setup THEN "setup" ELSE run_phase(config)
      [] call = "setup" ->
            IF config.mongodb THEN "install_mongodb_tracer" ELSE run_phase(config)
      [] call = "install_mongodb_tracer" -> run_phase(config)
      [] call = "mongo_tracer_start" -> "run"
      [] call = "run" -> IF config.mongodb THEN "mongo_tracer_stop" ELSE "teardown"
      [] call = "mongo_tracer_stop" -> "teardown"
      [] call = "teardown" -> "persist_log"
      [] OTHER -> "returned"

(* Mutant of upload_entry: the uploads of the completed runs are made even *)
(* with skip_upload                                                        *)
upload_entry_ignoring_skip(config, completed, k) ==
    IF k > Len(completed) THEN "done"
    ELSE IF ~config.is_local THEN "set_oidc_token" ELSE "upload"

(* execute, phase 2, at the k-th completed run: the first call of its      *)
(* upload, or the end of execute                                           *)
upload_entry(config, completed, k) ==
    IF config.skip_upload \/ k > Len(completed) THEN "done"
    ELSE IF ~config.is_local THEN "set_oidc_token" ELSE "upload"

(* the position of execute after the call `call` returned Ok: pc is the    *)
(* next call, mode_index the mode being run, upload_index the completed    *)
(* run being uploaded                                                      *)
after_ok(config, call, mode, k, completed) ==
    IF call \in {"set_oidc_token", "upload", "poll_results"}
    THEN IF call = "set_oidc_token"
         THEN [pc |-> "upload", mode_index |-> mode, upload_index |-> k,
               completed_runs |-> completed]
         ELSE IF call = "upload" /\ config.is_local
         THEN [pc |-> "poll_results", mode_index |-> mode, upload_index |-> k,
               completed_runs |-> completed]
         ELSE [pc |-> upload_entry(config, completed, k + 1), mode_index |-> mode,
               upload_index |-> k + 1, completed_runs |-> completed]
    ELSE LET next == after_ok_in_run_executor(config, call)
             pushed == Append(completed, config.modes[mode])
         IN  IF next # "returned"
             THEN [pc |-> next, mode_index |-> mode, upload_index |-> k,
                   completed_runs |-> completed]
             ELSE IF mode < Len(config.modes)
             THEN [pc |-> "context", mode_index |-> mode + 1, upload_index |-> k,
                   completed_runs |-> pushed]
             ELSE [pc |-> upload_entry(config, pushed, 1), mode_index |-> mode,
                   upload_index |-> 1, completed_runs |-> pushed]

(* one entry of the log of calls: which call, for which mode, with which   *)
(* outcome                                                                 *)
OrchCall(call, mode, ok) == [call |-> call, mode |-> mode, ok |-> ok]

(* the mode a call is made for: the mode being run, or the mode of the     *)
(* completed run being uploaded                                            *)
ModeOfCall(call) ==
    IF call \in {"set_oidc_token", "upload", "poll_results"}
    THEN completed_runs[upload_index]
    ELSE orch_config.modes[mode_index]

(* execute has not been called *)
OrchIdle ==
    /\ orch_config = [modes |-> <<>>, skip_setup |-> FALSE, skip_run |-> FALSE,
                      skip_upload |-> FALSE, mongodb |-> FALSE, is_local |-> FALSE]
    /\ orch_pc = "idle"
    /\ mode_index = 1
    /\ upload_index = 1
    /\ completed_runs = <<>>
    /\ orch_calls = <<>>
    /\ orch_result = None

(* execute is entered with a configuration *)
OrchStarted ==
    /\ orch_config \in OrchConfigs
    /\ orch_pc = IF orch_config.modes = <<>> THEN upload_entry(orch_config, <<>>, 1)
                 ELSE "context"
    /\ mode_index = 1
    /\ upload_index = 1
    /\ completed_runs = <<>>
    /\ orch_calls = <<>>
    /\ orch_result = IF orch_config.modes = <<>> THEN Some(Ok(<<>>)) ELSE None

(* ExecutionContext::new(per_mode_config)? in execute *)
ContextNew ==
    /\ orch_pc = "context"
    /\ \E ok \in BOOLEAN :
          LET next == after_ok(orch_config, "context", mode_index, upload_index, completed_runs)
          IN  /\ orch_calls' = Append(orch_calls, OrchCall("context", ModeOfCall("context"), ok))
              /\ orch_pc' = IF ok THEN next.pc ELSE "failed"
              /\ mode_index' = IF ok THEN next.mode_index ELSE mode_index
              /\ upload_index' = IF ok THEN next.upload_index ELSE upload_index
              /\ completed_runs' = IF ok THEN next.completed_runs ELSE completed_runs
              /\ orch_result' = IF ~ok THEN Some(Err("context"))
                                ELSE IF next.pc = "done" THEN Some(Ok(<<>>)) ELSE None
    /\ UNCHANGED orch_config
    /\ UNCHANGED <<finalVars, parseVars, writerVars, keyVars, fifoVars, codecVars, cellVars,
                   jitVars, knobVars>>

(* executor.setup(..).await? in run_executor *)
ExecutorSetup ==
    /\ orch_pc = "setup"
    /\ \E ok \in BOOLEAN :
          LET next == after_ok(orch_config, "setup", mode_index, upload_index, completed_runs)
          IN  /\ orch_calls' = Append(orch_calls, OrchCall("setup", ModeOfCall("setup"), ok))
              /\ orch_pc' = IF ok THEN next.pc ELSE "failed"
              /\ mode_index' = IF ok THEN next.mode_index ELSE mode_index
              /\ upload_index' = IF ok THEN next.upload_index ELSE upload_index
              /\ completed_runs' = IF ok THEN next.completed_runs ELSE completed_runs
              /\ orch_result' = IF ~ok THEN Some(Err("setup"))
                                ELSE IF next.pc = "done" THEN Some(Ok(<<>>)) ELSE None
    /\ UNCHANGED orch_config
    /\ UNCHANGED <<finalVars, parseVars, writerVars, keyVars, fifoVars, codecVars, cellVars,
                   jitVars, knobVars>>

(* install_mongodb_tracer().await? in run_executor *)
InstallMongodbTracer ==
    /\ orch_pc = "install_mongodb_tracer"
    /\ \E ok \in BOOLEAN :
          LET next == after_ok(orch_config, "install_mongodb_tracer", mode_index, upload_index, completed_runs)
          IN  /\ orch_calls' = Append(orch_calls, OrchCall("install_mongodb_tracer", ModeOfCall("install_mongodb_tracer"), ok))
              /\ orch_pc' = IF ok THEN next.pc ELSE "failed"
              /\ mode_index' = IF ok THEN next.mode_index ELSE mode_index
              /\ upload_index' = IF ok THEN next.upload_index ELSE upload_index
              /\ completed_runs' = IF ok THEN next.completed_runs ELSE completed_runs
              /\ orch_result' = IF ~ok THEN Some(Err("install_mongodb_tracer"))
                                ELSE IF next.pc = "done" THEN Some(Ok(<<>>)) ELSE None
    /\ UNCHANGED orch_config
    /\ UNCHANGED <<finalVars, parseVars, writerVars, keyVars, fifoVars, codecVars, cellVars,
                   jitVars, knobVars>>

(* MongoTracer::try_from(..)? and mongo_tracer.start().await? *)
MongoTracerStart ==
    /\ orch_pc = "mongo_tracer_start"
    /\ \E ok \in BOOLEAN :
          LET next == after_ok(orch_config, "mongo_tracer_start", mode_index, upload_index, completed_runs)
          IN  /\ orch_calls' = Append(orch_calls, OrchCall("mongo_tracer_start", ModeOfCall("mongo_tracer_start"), ok))
              /\ orch_pc' = IF ok THEN next.pc ELSE "failed"
              /\ mode_index' = IF ok THEN next.mode_index ELSE mode_index
              /\ upload_index' = IF ok THEN next.upload_index ELSE upload_index
              /\ completed_runs' = IF ok THEN next.completed_runs ELSE completed_runs
              /\ orch_result' = IF ~ok THEN Some(Err("mongo_tracer_start"))
                                ELSE IF next.pc = "done" THEN Some(Ok(<<>>)) ELSE None
    /\ UNCHANGED orch_config
    /\ UNCHANGED <<finalVars, parseVars, writerVars, keyVars, fifoVars, codecVars, cellVars,
                   jitVars, knobVars>>

(* executor.run(..).await? in run_executor *)
ExecutorRun ==
    /\ orch_pc = "run"
    /\ \E ok \in BOOLEAN :
          LET next == after_ok(orch_config, "run", mode_index, upload_index, completed_runs)
          IN  /\ orch_calls' = Append(orch_calls, OrchCall("run", ModeOfCall("run"), ok))
              /\ orch_pc' = IF ok THEN next.pc ELSE "failed"
              /\ mode_index' = IF ok THEN next.mode_index ELSE mode_index
              /\ upload_index' = IF ok THEN next.upload_index ELSE upload_index
              /\ completed_runs' = IF ok THEN next.completed_runs ELSE completed_runs
              /\ orch_result' = IF ~ok THEN Some(Err("run"))
                                ELSE IF next.pc = "done" THEN Some(Ok(<<>>)) ELSE None
    /\ UNCHANGED orch_config
    /\ UNCHANGED <<finalVars, parseVars, writerVars, keyVars, fifoVars, codecVars, cellVars,
                   jitVars, knobVars>>

(* mongo_tracer.stop().await? in run_executor *)
MongoTracerStop ==
    /\ orch_pc = "mongo_tracer_stop"
    /\ \E ok \in BOOLEAN :
          LET next == after_ok(orch_config, "mongo_tracer_stop", mode_index, upload_index, completed_runs)
          IN  /\ orch_calls' = Append(orch_calls, OrchCall("mongo_tracer_stop", ModeOfCall("mongo_tracer_stop"), ok))
              /\ orch_pc' = IF ok THEN next.pc ELSE "failed"
              /\ mode_index' = IF ok THEN next.mode_index ELSE mode_index
              /\ upload_index' = IF ok THEN next.upload_index ELSE upload_index
              /\ completed_runs' = IF ok THEN next.completed_runs ELSE completed_runs
              /\ orch_result' = IF ~ok THEN Some(Err("mongo_tracer_stop"))
                                ELSE IF next.pc = "done" THEN Some(Ok(<<>>)) ELSE None
    /\ UNCHANGED orch_config
    /\ UNCHANGED <<finalVars, parseVars, writerVars, keyVars, fifoVars, codecVars, cellVars,
                   jitVars, knobVars>>

(* executor.teardown(..).await? in run_executor *)
ExecutorTeardown ==
    /\ orch_pc = "teardown"
    /\ \E ok \in BOOLEAN :
          LET next == after_ok(orch_config, "teardown", mode_index, upload_index, completed_runs)
          IN  /\ orch_calls' = Append(orch_calls, OrchCall("teardown", ModeOfCall("teardown"), ok))
              /\ orch_pc' = IF ok THEN next.pc ELSE "failed"
              /\ mode_index' = IF ok THEN next.mode_index ELSE mode_index
              /\ upload_index' = IF ok THEN next.upload_index ELSE upload_index
              /\ completed_runs' = IF ok THEN next.completed_runs ELSE completed_runs
              /\ orch_result' = IF ~ok THEN Some(Err("teardown"))
                                ELSE IF next.pc = "done" THEN Some(Ok(<<>>)) ELSE None
    /\ UNCHANGED orch_config
    /\ UNCHANGED <<finalVars, parseVars, writerVars, keyVars, fifoVars, codecVars, cellVars,
                   jitVars, knobVars>>

(* logger.persist_log_to_profile_folder(..)? in run_executor *)
PersistLog ==
    /\ orch_pc = "persist_log"
    /\ \E ok \in BOOLEAN :
          LET next == after_ok(orch_config, "persist_log", mode_index, upload_index, completed_runs)
          IN  /\ orch_calls' = Append(orch_calls, OrchCall("persist_log", ModeOfCall("persist_log"), ok))
              /\ orch_pc' = IF ok THEN next.pc ELSE "failed"
              /\ mode_index' = IF ok THEN next.mode_index ELSE mode_index
              /\ upload_index' = IF ok THEN next.upload_index ELSE upload_index
              /\ completed_runs' = IF ok THEN next.completed_runs ELSE completed_runs
              /\ orch_result' = IF ~ok THEN Some(Err("persist_log"))
                                ELSE IF next.pc = "done" THEN Some(Ok(<<>>)) ELSE None
    /\ UNCHANGED orch_config
    /\ UNCHANGED <<finalVars, parseVars, writerVars, keyVars, fifoVars, codecVars, cellVars,
                   jitVars, knobVars>>

(* provider.set_oidc_token(..).await? in execute *)
SetOidcToken ==
    /\ orch_pc = "set_oidc_token"
    /\ \E ok \in BOOLEAN :
          LET next == after_ok(orch_config, "set_oidc_token", mode_index, upload_index, completed_runs)
          IN  /\ orch_calls' = Append(orch_calls, OrchCall("set_oidc_token", ModeOfCall("set_oidc_token"), ok))
              /\ orch_pc' = IF ok THEN next.pc ELSE "failed"
              /\ mode_index' = IF ok THEN next.mode_index ELSE mode_index
              /\ upload_index' = IF ok THEN next.upload_index ELSE upload_index
              /\ completed_runs' = IF ok THEN next.completed_runs ELSE completed_runs
              /\ orch_result' = IF ~ok THEN Some(Err("set_oidc_token"))
                                ELSE IF next.pc = "done" THEN Some(Ok(<<>>)) ELSE None
    /\ UNCHANGED orch_config
    /\ UNCHANGED <<finalVars, parseVars, writerVars, keyVars, fifoVars, codecVars, cellVars,
                   jitVars, knobVars>>

(* upload::upload(..).await? in execute *)
Upload ==
    /\ orch_pc = "upload"
    /\ \E ok \in BOOLEAN :
          LET next == after_ok(orch_config, "upload", mode_index, upload_index, completed_runs)
          IN  /\ orch_calls' = Append(orch_calls, OrchCall("upload", ModeOfCall("upload"), ok))
              /\ orch_pc' = IF ok THEN next.pc ELSE "failed"
              /\ mode_index' = IF ok THEN next.mode_index ELSE mode_index
              /\ upload_index' = IF ok THEN next.upload_index ELSE upload_index
              /\ completed_runs' = IF ok THEN next.completed_runs ELSE completed_runs
              /\ orch_result' = IF ~ok THEN Some(Err("upload"))
                                ELSE IF next.pc = "done" THEN Some(Ok(<<>>)) ELSE None
    /\ UNCHANGED orch_config
    /\ UNCHANGED <<finalVars, parseVars, writerVars, keyVars, fifoVars, codecVars, cellVars,
                   jitVars, knobVars>>

(* poll_results(&upload_result).await? in execute *)
PollResults ==
    /\ orch_pc = "poll_results"
    /\ \E ok \in BOOLEAN :
          LET next == after_ok(orch_config, "poll_results", mode_index, upload_index, completed_runs)
          IN  /\ orch_calls' = Append(orch_calls, OrchCall("poll_results", ModeOfCall("poll_results"), ok))
              /\ orch_pc' = IF ok THEN next.pc ELSE "failed"
              /\ mode_index' = IF ok THEN next.mode_index ELSE mode_index
              /\ upload_index' = IF ok THEN next.upload_index ELSE upload_index
              /\ completed_runs' = IF ok THEN next.completed_runs ELSE completed_runs
              /\ orch_result' = IF ~ok THEN Some(Err("poll_results"))
                                ELSE IF next.pc = "done" THEN Some(Ok(<<>>)) ELSE None
    /\ UNCHANGED orch_config
    /\ UNCHANGED <<finalVars, parseVars, writerVars, keyVars, fifoVars, codecVars, cellVars,
                   jitVars, knobVars>>

---------------------------------------------------------------------------
(* PerfRunner::setup_environment: install_perf, then the two kernel knobs. *)

KptrRestrict == <<"kernel.kptr_restrict">>
PerfEventParanoid == <<"kernel.perf_event_paranoid">>

(* the values the knobs may have when setup starts *)
KptrRestrictValues == {0, 1, 2}
PerfEventParanoidValues == {-1, 0, 2, 4}

(* the decimal form of an i64 *)
FormatI64(v) == IF v < 0 THEN <<"-">> \o ToDecimal(-v) ELSE ToDecimal(v)

(* the standard output of `sysctl <name>` *)
sysctl_stdout(name, value) == name \o <<" ", "=", " ">> \o FormatI64(value) \o <<"\n">>

RECURSIVE last_after_separator(_, _)
(* str::split(" = ").last(): the piece after the last " = ", the whole     *)
(* string when there is none; `piece` is the piece being read              *)
last_after_separator(s, piece) ==
    IF s = <<>> THEN piece
    ELSE IF Len(s) >= 3 /\ SubSeq(s, 1, 3) = <<" ", "=", " ">>
    THEN last_after_separator(SubSeq(s, 4, Len(s)), <<>>)
    ELSE last_after_separator(Tail(s), Append(piece, Head(s)))

RECURSIVE trim(_)
(* str::trim *)
trim(s) ==
    IF s = <<>> THEN s
    ELSE IF Head(s) \in {" ", "\n"} THEN trim(Tail(s))
    ELSE IF s[Len(s)] \in {" ", "\n"} THEN trim(SubSeq(s, 1, Len(s) - 1))
    ELSE s

DigitValue(c) == (CHOOSE i \in 1..10 : DigitChars[i] = c) - 1

RECURSIVE parse_digits(_, _)
parse_digits(s, acc) ==
    IF s = <<>> THEN acc ELSE parse_digits(Tail(s), acc * 10 + DigitValue(Head(s)))

(* str::parse::<i64>: an optional sign and at least one digit *)
parse_i64(s) ==
    LET digits == IF s # <<>> /\ Head(s) \in {"-", "+"} THEN Tail(s) ELSE s
    IN  IF digits = <<>> \/ \E i \in 1..Len(digits) : digits[i] \notin Range(DigitChars)
        THEN Err("ParseIntError")
        ELSE Ok(IF Head(s) = "-" THEN 0 - parse_digits(digits, 0) ELSE parse_digits(digits, 0))

(* the closure sysctl_read on what the command gave: `output` is Err when  *)
(* the command could not be run, else its standard output                  *)
sysctl_read(output) ==
    IF ~output.ok THEN output
    ELSE parse_i64(trim(last_after_separator(output.val, <<>>)))

(* what running `sysctl <name>` may give for a knob of value v: its line,  *)
(* nothing on standard output (sysctl failed), or no process at all        *)
SysctlOutputs(name, v) == {Ok(sysctl_stdout(name, v)), Ok(<<>>), Err("io")}

(* Mutant of needs_write: the knob is always written *)
needs_write_always(value, permissive) == TRUE

(* `sysctl_read(..)? != 0` and `sysctl_read(..)? != -1` *)
needs_write(value, permissive) == value # permissive

(* setup_environment has not been called *)
KnobIdle ==
    /\ setup_pc = "idle"
    /\ kptr_restrict = 0
    /\ perf_event_paranoid = -1
    /\ knob_reads = <<>>
    /\ elevated_commands = <<>>
    /\ setup_result = None

(* setup_environment is entered on a host *)
KnobStarted ==
    /\ setup_pc = "install_perf"
    /\ kptr_restrict \in KptrRestrictValues
    /\ perf_event_paranoid \in PerfEventParanoidValues
    /\ knob_reads = <<>>
    /\ elevated_commands = <<>>
    /\ setup_result = None

(* setup::install_perf(..).await? *)
InstallPerf ==
    /\ setup_pc = "install_perf"
    /\ \E ok \in BOOLEAN :
          /\ setup_pc' = IF ok THEN "read_kptr_restrict" ELSE "failed"
          /\ setup_result' = IF ok THEN None ELSE Some(Err("install_perf"))
    /\ UNCHANGED <<kptr_restrict, perf_event_paranoid, knob_reads, elevated_commands>>
    /\ UNCHANGED <<finalVars, parseVars, writerVars, keyVars, fifoVars, codecVars, cellVars,
                   jitVars, orchVars>>

(* sysctl_read("kernel.kptr_restrict")? != 0 *)
ReadKptrRestrict ==
    /\ setup_pc = "read_kptr_restrict"
    /\ \E output \in SysctlOutputs(KptrRestrict, kptr_restrict) :
          LET value == sysctl_read(output)
          IN  /\ knob_reads' = Append(knob_reads, [knob |-> KptrRestrict, value |-> value])
              /\ setup_pc' = IF ~value.ok THEN "failed"
                             ELSE IF needs_write(value.val, 0) THEN "set_kptr_restrict"
                             ELSE "read_perf_event_paranoid"
              /\ setup_result' = IF value.ok THEN None ELSE Some(value)
    /\ UNCHANGED <<kptr_restrict, perf_event_paranoid, elevated_commands>>
    /\ UNCHANGED <<finalVars, parseVars, writerVars, keyVars, fifoVars, codecVars, cellVars,
                   jitVars, orchVars>>

(* run_with_sudo("sysctl", ["-w", "kernel.kptr_restrict=0"])? *)
SetKptrRestrict ==
    /\ setup_pc = "set_kptr_restrict"
    /\ \E ok \in BOOLEAN :
          /\ elevated_commands' =
                Append(elevated_commands, [knob |-> KptrRestrict, value |-> 0, ok |-> ok])
          /\ kptr_restrict' = IF ok THEN 0 ELSE kptr_restrict
          /\ setup_pc' = IF ok THEN "read_perf_event_paranoid" ELSE "failed"
          /\ setup_result' = IF ok THEN None ELSE Some(Err("run_with_sudo"))
    /\ UNCHANGED <<perf_event_paranoid, knob_reads>>
    /\ UNCHANGED <<finalVars, parseVars, writerVars, keyVars, fifoVars, codecVars, cellVars,
                   jitVars, orchVars>>

(* sysctl_read("kernel.perf_event_paranoid")? != -1 *)
ReadPerfEventParanoid ==
    /\ setup_pc = "read_perf_event_paranoid"
    /\ \E output \in SysctlOutputs(PerfEventParanoid, perf_event_paranoid) :
          LET value == sysctl_read(output)
          IN  /\ knob_reads' = Append(knob_reads, [knob |-> PerfEventParanoid, value |-> value])
              /\ setup_pc' = IF ~value.ok THEN "failed"
                             ELSE IF needs_write(value.val, -1) THEN "set_perf_event_paranoid"
                             ELSE "done"
              /\ setup_result' = IF ~value.ok THEN Some(value)
                                 ELSE IF needs_write(value.val, -1) THEN None
                                 ELSE Some(Ok(<<>>))
    /\ UNCHANGED <<kptr_restrict, perf_event_paranoid, elevated_commands>>
    /\ UNCHANGED <<finalVars, parseVars, writerVars, keyVars, fifoVars, codecVars, cellVars,
                   jitVars, orchVars>>

(* run_with_sudo("sysctl", ["-w", "kernel.perf_event_paranoid=-1"])?, then *)
(* Ok(())                                                                  *)
SetPerfEventParanoid ==
    /\ setup_pc = "set_perf_event_paranoid"
    /\ \E ok \in BOOLEAN :
          /\ elevated_commands' =
                Append(elevated_commands, [knob |-> PerfEventParanoid, value |-> -1, ok |-> ok])
          /\ perf_event_paranoid' = IF ok THEN -1 ELSE perf_event_paranoid
          /\ setup_pc' = IF ok THEN "done" ELSE "failed"
          /\ setup_result' = IF ok THEN Some(Ok(<<>>)) ELSE Some(Err("run_with_sudo"))
    /\ UNCHANGED <<kptr_restrict, knob_reads>>
    /\ UNCHANGED <<finalVars, parseVars, writerVars, keyVars, fifoVars, codecVars, cellVars,
                   jitVars, orchVars>>

---------------------------------------------------------------------------
(* The FIFO service loop: PerfRunner::handle_fifo. *)

(* bounds of the FIFO model *)
MaxCommands == 3

(* FifoCommand, as far as on_cmd tells the commands apart; SetIntegration  *)
(* stands for every command of the `_ => {}` arm                           *)
FifoCommands ==
    {"StartBenchmark", "StopBenchmark", "PingPerf", "GetIntegrationMode", "SetIntegration"}
NoCommand == "none"

(* exit statuses of the child: a clean exit and a crash *)
ExitStatuses == {0, 1}
ChildRunning == [state |-> "running"]
ChildExited(status) == [state |-> "exited", status |-> status]

(* Mutant of on_cmd: PingPerf written as `perf_fifo.ping().await?` *)
on_cmd_ping_propagated(command, perf_ok) ==
    CASE command = "StartBenchmark" ->
            [calls |-> <<"start_events">>,
             result |-> IF perf_ok THEN Ok(None) ELSE Err("start_events")]
      [] command = "StopBenchmark" ->
            [calls |-> <<"stop_events">>,
             result |-> IF perf_ok THEN Ok(None) ELSE Err("stop_events")]
      [] command = "PingPerf" ->
            [calls |-> <<"ping">>,
             result |-> IF perf_ok THEN Ok(Some("Ack")) ELSE Err("ping")]
      [] command = "GetIntegrationMode" ->
            [calls |-> <<>>, result |-> Ok(Some("IntegrationModeResponse(Perf)"))]
      [] OTHER -> [calls |-> <<>>, result |-> Ok(None)]

(* the closure on_cmd of handle_fifo: the calls it makes on the profiler   *)
(* FIFO and the Result<Option<FifoCommand>> it returns; perf_ok tells      *)
(* whether the call on the profiler FIFO succeeds                          *)
on_cmd(command, perf_ok) ==
    CASE command = "StartBenchmark" ->
            [calls |-> <<"start_events">>,
             result |-> IF perf_ok THEN Ok(None) ELSE Err("start_events")]
      [] command = "StopBenchmark" ->
            [calls |-> <<"stop_events">>,
             result |-> IF perf_ok THEN Ok(None) ELSE Err("stop_events")]
      [] command = "PingPerf" ->
            [calls |-> <<"ping">>,
             result |-> IF perf_ok THEN Ok(Some("Ack")) ELSE Ok(Some("Err"))]
      [] command = "GetIntegrationMode" ->
            [calls |-> <<>>, result |-> Ok(Some("IntegrationModeResponse(Perf)"))]
      [] OTHER -> [calls |-> <<>>, result |-> Ok(None)]

(* bound of the run model: the calls of run on one PerfRunner *)
MaxRuns == 2

(* the BenchmarkData that the run-th call of run hands to the cell *)
BenchmarkDataOf(run) == [fifo_data |-> fifo_data, run |-> run]

(* Mutant of once_cell_set: the cell takes the new value *)
once_cell_set_replacing(cell, value) ==
    [cell |-> Some(value), result |-> Ok(<<>>)]

(* OnceCell::set: an empty cell takes the value; a full cell keeps its     *)
(* value and the call returns Err (run logs an error and goes on)          *)
once_cell_set(cell, value) ==
    IF IsSome(cell) THEN [cell |-> cell, result |-> Err(value)]
    ELSE [cell |-> Some(value), result |-> Ok(<<>>)]

(* the state of the FIFO side once handle_fifo has returned and the        *)
(* finalizer runs                                                          *)
FifoReturned ==
    /\ fifo_pc = "returned"
    /\ child = ChildExited(0)
    /\ perf_alive = TRUE
    /\ runner_fifo = <<>>
    /\ n_sent = 0
    /\ cmd = NoCommand
    /\ perf_fifo = <<>>
    /\ responses = <<>>
    /\ handle_fifo_result = Some(Ok([exit_status |-> 0]))
    /\ benchmark_data = Some(BenchmarkDataOf(1))
    /\ n_runs = 1
    /\ run_returned = Some(Ok([exit_status |-> 0]))

(* handle_fifo is entered: the child runs, the profiler is up *)
FifoStarted ==
    /\ fifo_pc = "poll"
    /\ child = ChildRunning
    /\ perf_alive = TRUE
    /\ runner_fifo = <<>>
    /\ n_sent = 0
    /\ cmd = NoCommand
    /\ perf_fifo = <<>>
    /\ responses = <<>>
    /\ handle_fifo_result = None
    /\ benchmark_data = None
    /\ n_runs = 1
    /\ run_returned = None

(* the benchmark process writes one command on the runner FIFO *)
BenchmarkSends ==
    /\ child = ChildRunning
    /\ n_sent < MaxCommands
    /\ \E c \in FifoCommands : runner_fifo' = Append(runner_fifo, c)
    /\ n_sent' = n_sent + 1
    /\ UNCHANGED <<fifo_pc, child, perf_alive, cmd, perf_fifo, responses, handle_fifo_result>>
    /\ UNCHANGED <<finalVars, parseVars, writerVars, keyVars, codecVars, cellVars, jitVars, orchVars, knobVars>>

(* the benchmark process exits, or crashes, at any point *)
ChildExits ==
    /\ child = ChildRunning
    /\ \E status \in ExitStatuses : child' = ChildExited(status)
    /\ UNCHANGED <<fifo_pc, perf_alive, runner_fifo, n_sent, cmd, perf_fifo, responses,
                   handle_fifo_result>>
    /\ UNCHANGED <<finalVars, parseVars, writerVars, keyVars, codecVars, cellVars, jitVars, orchVars, knobVars>>

(* the profiler dies *)
ProfilerDies ==
    /\ perf_alive
    /\ fifo_pc # "returned"
    /\ perf_alive' = FALSE
    /\ UNCHANGED <<fifo_pc, child, runner_fifo, n_sent, cmd, perf_fifo, responses,
                   handle_fifo_result>>
    /\ UNCHANGED <<finalVars, parseVars, writerVars, keyVars, codecVars, cellVars, jitVars, orchVars, knobVars>>

(* handle_fifo_messages polls the child: when it has exited the loop ends  *)
(* and handle_fifo returns the exit status                                 *)
PollChild ==
    /\ fifo_pc = "poll"
    /\ IF child.state = "exited"
       THEN /\ fifo_pc' = "returned"
            /\ handle_fifo_result' = Some(Ok([exit_status |-> child.status]))
       ELSE /\ fifo_pc' = "read"
            /\ UNCHANGED handle_fifo_result
    /\ UNCHANGED <<child, perf_alive, runner_fifo, n_sent, cmd, perf_fifo, responses>>
    /\ UNCHANGED <<finalVars, parseVars, writerVars, keyVars, codecVars, cellVars, jitVars, orchVars, knobVars>>

(* handle_fifo_messages reads one command from the runner FIFO *)
ReadCommand ==
    /\ fifo_pc = "read"
    /\ runner_fifo # <<>>
    /\ cmd' = Head(runner_fifo)
    /\ runner_fifo' = Tail(runner_fifo)
    /\ fifo_pc' = "handle"
    /\ UNCHANGED <<child, perf_alive, n_sent, perf_fifo, responses, handle_fifo_result>>
    /\ UNCHANGED <<finalVars, parseVars, writerVars, keyVars, codecVars, cellVars, jitVars, orchVars, knobVars>>

(* no command arrives: the read gives up and the loop polls the child again *)
ReadNothing ==
    /\ fifo_pc = "read"
    /\ runner_fifo = <<>>
    /\ fifo_pc' = "poll"
    /\ UNCHANGED <<child, perf_alive, runner_fifo, n_sent, cmd, perf_fifo, responses,
                   handle_fifo_result>>
    /\ UNCHANGED <<finalVars, parseVars, writerVars, keyVars, codecVars, cellVars, jitVars, orchVars, knobVars>>

(* the command is handed to on_cmd: its response, if any, is written back  *)
(* and the loop goes on; its error ends handle_fifo_messages, and          *)
(* handle_fifo returns it (`.await?`)                                      *)
HandleCommand ==
    /\ fifo_pc = "handle"
    /\ LET out == on_cmd(cmd, perf_alive)
       IN  /\ perf_fifo' = perf_fifo \o out.calls
           /\ IF out.result.ok
              THEN /\ responses' = IF IsSome(out.result.val)
                                   THEN Append(responses, out.result.val.val)
                                   ELSE responses
                   /\ fifo_pc' = "poll"
                   /\ UNCHANGED handle_fifo_result
              ELSE /\ handle_fifo_result' = Some(out.result)
                   /\ fifo_pc' = "returned"
                   /\ UNCHANGED responses
    /\ cmd' = NoCommand
    /\ UNCHANGED <<child, perf_alive, runner_fifo, n_sent>>
    /\ UNCHANGED <<finalVars, parseVars, writerVars, keyVars, codecVars, cellVars, jitVars, orchVars, knobVars>>

InitCore(FifoDatas, HostFiles) ==
    /\ fifo_data \in FifoDatas
    /\ fs \in HostFiles
    /\ files = EmptyMap
    /\ metadata_file = "absent"
    /\ perf_map_lines = EmptyMap
    /\ save_result = None
    /\ run_result = None
    /\ warnings = 0
    /\ pid_filter = PidFilterAll
    /\ loaded_modules_by_path = EmptyMap
    /\ tracked_pids = {}
    /\ record = NoRecord
    /\ n_read = 0
    /\ included = FALSE
    /\ fork_log = {}
    /\ observed_pids = {}
    /\ last_mmap = EmptyMap
    /\ insertion_order = <<>>
    /\ elf_calls = [q \in ElfPaths |-> NoCalls]
    /\ harvest_left = {}
    /\ jit_unwind_data_by_pid = EmptyMap
    /\ module_order = <<>>
    /\ path_to_key = EmptyMap
    /\ artifacts = EmptySavedArtifacts
    /\ registered = <<>>
    /\ returned = None
    /\ CodecIdle

(* the same, with the JIT dump reader, the orchestrator and the setup idle *)
InitState(FifoDatas, HostFiles) ==
    /\ InitCore(FifoDatas, HostFiles)
    /\ JitIdle
    /\ OrchIdle
    /\ KnobIdle

(* the finalizer is about to run: teardown has called save_files_to *)
InitWith(FifoDatas, HostFiles) ==
    /\ pc = "save_to"
    /\ InitState(FifoDatas, HostFiles)

---------------------------------------------------------------------------
(* save_files_to reads the cell (`.get().expect(..)` panics on an empty    *)
(* cell), then BenchmarkData::save_to, up to the call of                   *)
(* parse_for_memmap2: the execution timestamps are saved and the PID       *)
(* filter is chosen.                                                       *)
SaveToStart ==
    /\ pc = "save_to"
    /\ IF IsSome(benchmark_data)
       THEN /\ files' = Written(files, ExecutionTimestampsFile)
            /\ pid_filter' = IF is_exec_harness(fifo_data) THEN PidFilterAll
                             ELSE PidFilterTrackedPids(fifo_data.bench_pids)
            /\ pc' = "parse_open"
       ELSE /\ pc' = "panicked_benchmark_data"
            /\ UNCHANGED <<files, pid_filter>>
    /\ UNCHANGED <<fifo_data, fs, metadata_file, perf_map_lines, save_result, run_result, warnings>>
    /\ UNCHANGED <<loaded_modules_by_path, tracked_pids, record, n_read, included,
                   fork_log, observed_pids, last_mmap, insertion_order, elf_calls>>
    /\ UNCHANGED <<writerVars, keyVars, fifoVars, codecVars, cellVars, jitVars, orchVars, knobVars>>

(* parse_for_memmap2: File::open and PerfFileReader::parse_pipe succeed *)
ParseOpen ==
    /\ pc = "parse_open"
    /\ pc' = "parse_loop"
    /\ UNCHANGED <<fifo_data, fs, metadata_file, perf_map_lines, files, save_result, run_result, warnings>>
    /\ UNCHANGED <<parseVars, writerVars, keyVars, fifoVars, codecVars, cellVars, jitVars, orchVars, knobVars>>

(* parse_for_memmap2: the capture cannot be opened or its header is not a  *)
(* perf pipe header; save_to maps the error to FailedToParsePerfFile.      *)
ParseOpenFail ==
    /\ pc = "parse_open"
    /\ save_result' = Some(Err("FailedToParsePerfFile"))
    /\ pc' = "save_to_returned"
    /\ UNCHANGED <<fifo_data, fs, metadata_file, perf_map_lines, files, run_result, warnings>>
    /\ UNCHANGED <<parseVars, writerVars, keyVars, fifoVars, codecVars, cellVars, jitVars, orchVars, knobVars>>

(* one FORK record of the loop *)
ReadFork(Records) ==
    /\ pc = "parse_loop"
    /\ n_read < MaxRecords
    /\ \E rec \in Records :
        /\ rec.type = "FORK"
        /\ LET out == add_child_if_parent_tracked(pid_filter, rec.ppid, rec.pid)
           IN  /\ pid_filter' = out.filter
               /\ fork_log' = fork_log \cup
                      {[ppid |-> rec.ppid, pid |-> rec.pid,
                        parent_tracked |-> rec.ppid \in pid_filter.tracked]}
        /\ record' = rec
        /\ observed_pids' = observed_pids \cup {rec.ppid, rec.pid}
    /\ n_read' = n_read + 1
    /\ included' = FALSE
    /\ UNCHANGED <<loaded_modules_by_path, tracked_pids, last_mmap, insertion_order, elf_calls>>
    /\ UNCHANGED <<finalVars, writerVars, keyVars, fifoVars, codecVars, cellVars, jitVars, orchVars, knobVars>>

(* one MMAP2 record of the loop *)
ReadMmap2(Records) ==
    /\ pc = "parse_loop"
    /\ n_read < MaxRecords
    /\ \E rec \in Records :
        /\ rec.type = "MMAP2"
        /\ record' = rec
        /\ observed_pids' = observed_pids \cup {rec.pid}
        /\ included' = should_include(pid_filter, rec.pid)
        /\ IF should_include(pid_filter, rec.pid)
           THEN LET out == process_mmap2_record(fs.elf, rec, loaded_modules_by_path)
                IN  /\ loaded_modules_by_path' = out.modules
                    /\ last_mmap' =
                         IF "unwind_data_from_elf" \notin out.calls THEN last_mmap
                         ELSE [k \in DOMAIN last_mmap \cup {<<rec.path, rec.pid>>} |->
                                  IF k = <<rec.path, rec.pid>>
                                  THEN <<rec.address, rec.page_offset>> ELSE last_mmap[k]]
                    /\ insertion_order' =
                         IF rec.path \in DOMAIN out.modules
                            /\ rec.path \notin DOMAIN loaded_modules_by_path
                         THEN Append(insertion_order, rec.path) ELSE insertion_order
                    /\ elf_calls' =
                         [q \in DOMAIN elf_calls |->
                            IF q # rec.path THEN elf_calls[q]
                            ELSE [c \in DOMAIN NoCalls |->
                                     elf_calls[q][c] + Count(out.calls, c)]]
           ELSE UNCHANGED <<loaded_modules_by_path, last_mmap, insertion_order, elf_calls>>
    /\ n_read' = n_read + 1
    /\ UNCHANGED <<pid_filter, tracked_pids, fork_log>>
    /\ UNCHANGED <<finalVars, writerVars, keyVars, fifoVars, codecVars, cellVars, jitVars, orchVars, knobVars>>

(* a record of another type, or a FORK / MMAP2 whose body does not parse:   *)
(* the loop continues                                                       *)
ReadOther ==
    /\ pc = "parse_loop"
    /\ n_read < MaxRecords
    /\ record' = [type |-> "OTHER"]
    /\ n_read' = n_read + 1
    /\ included' = FALSE
    /\ UNCHANGED <<pid_filter, loaded_modules_by_path, tracked_pids, fork_log, observed_pids, last_mmap,
                   insertion_order, elf_calls>>
    /\ UNCHANGED <<finalVars, writerVars, keyVars, fifoVars, codecVars, cellVars, jitVars, orchVars, knobVars>>

(* next_record returns Err (the capture ends inside a record): the unwrap   *)
(* of the loop head panics                                                  *)
ReadTruncated ==
    /\ pc = "parse_loop"
    /\ pc' = "panicked_next_record"
    /\ UNCHANGED <<fifo_data, fs, metadata_file, perf_map_lines, files, save_result, run_result, warnings>>
    /\ UNCHANGED <<parseVars, writerVars, keyVars, fifoVars, codecVars, cellVars, jitVars, orchVars, knobVars>>

(* end of the stream: parse_for_memmap2 returns the index and tracked_pids, *)
(* and save_to hands tracked_pids to the JIT harvest                        *)
ParseEnd ==
    /\ pc = "parse_loop"
    /\ tracked_pids' = final_tracked_pids(pid_filter, loaded_modules_by_path)
    /\ harvest_left' = final_tracked_pids(pid_filter, loaded_modules_by_path)
    /\ pc' = "harvest"
    /\ UNCHANGED <<fifo_data, fs, metadata_file, perf_map_lines, files, save_result, run_result, warnings>>
    /\ UNCHANGED <<pid_filter, loaded_modules_by_path, record, n_read, included,
                   fork_log, observed_pids, last_mmap, insertion_order, elf_calls>>
    /\ UNCHANGED <<jit_unwind_data_by_pid, module_order, path_to_key, artifacts>>
    /\ UNCHANGED <<keyVars, fifoVars, codecVars, cellVars, jitVars, orchVars, knobVars>>

---------------------------------------------------------------------------
(* ModuleSymbols::append_to_file on <profile_folder>/perf-<pid>.map: the    *)
(* file is opened with create + append, so what it held stays in front      *)
append_to_file(lines, pid, chunk) ==
    [p \in DOMAIN lines \cup {pid} |->
        IF p # pid THEN lines[p]
        ELSE (IF pid \in DOMAIN lines THEN lines[pid] ELSE <<>>) \o <<chunk>>]

(* the symbols a /tmp/perf-<pid>.map of the host holds *)
HostPerfMap == <<Sym(4096, 16, <<"h">>)>>

(* helpers::harvest_perf_maps_for_pids: every existing /tmp/perf-<pid>.map  *)
(* of `pids` is copied over <profile_folder>/perf-<pid>.map.  No step of    *)
(* save_to or save_files_to calls it.                                       *)
harvest_perf_maps_for_pids(lines, host_perf_maps, pids) ==
    [p \in DOMAIN lines \cup (pids \cap host_perf_maps) |->
        IF p \in pids \cap host_perf_maps THEN <<HostPerfMap>> ELSE lines[p]]

(* jit_dump::save_symbols_and_harvest_unwind_data_for_pids: one iteration   *)
(* of `for pid in pids` whose append to perf-<pid>.map does not fail        *)
HarvestPid ==
    /\ pc = "harvest"
    /\ \E pid \in harvest_left :
        /\ harvest_left' = harvest_left \ {pid}
        /\ IF pid \notin DOMAIN fs.jit
           THEN UNCHANGED <<files, perf_map_lines, jit_unwind_data_by_pid>>
           ELSE LET symbols == into_perf_map(fs.jit[pid])
                    jit_unwind_data == into_unwind_data(fs.jit[pid])
                IN  IF ~symbols.ok
                    THEN UNCHANGED <<files, perf_map_lines, jit_unwind_data_by_pid>>
                    ELSE /\ files' = Written(files, PerfMapFile(pid))
                         /\ perf_map_lines' = append_to_file(perf_map_lines, pid, symbols.val)
                         /\ jit_unwind_data_by_pid' =
                              IF ~jit_unwind_data.ok THEN jit_unwind_data_by_pid
                              ELSE [p \in DOMAIN jit_unwind_data_by_pid \cup {pid} |->
                                       IF p = pid THEN jit_unwind_data.val
                                       ELSE jit_unwind_data_by_pid[p]]
    /\ UNCHANGED <<pc, fifo_data, fs, metadata_file, save_result, run_result, warnings>>
    /\ UNCHANGED <<module_order, path_to_key, artifacts>>
    /\ UNCHANGED <<parseVars, keyVars, fifoVars, codecVars, cellVars, jitVars, orchVars, knobVars>>

(* the append to perf-<pid>.map fails (`?`): the harvest returns the error  *)
(* and save_to maps it to FailedToHarvestJitDumps                           *)
HarvestAppendFail ==
    /\ pc = "harvest"
    /\ \E pid \in harvest_left :
        /\ pid \in DOMAIN fs.jit
        /\ into_perf_map(fs.jit[pid]).ok
    /\ save_result' = Some(Err("FailedToHarvestJitDumps"))
    /\ pc' = "save_to_returned"
    /\ UNCHANGED <<fifo_data, fs, metadata_file, perf_map_lines, files, run_result, warnings>>
    /\ UNCHANGED <<parseVars, writerVars, keyVars, fifoVars, codecVars, cellVars, jitVars, orchVars, knobVars>>

(* the harvest loop is over: save_artifacts starts with register_paths,     *)
(* which walks the module index in the order the HashMap yields its keys    *)
RegisterPaths ==
    /\ pc = "harvest"
    /\ harvest_left = {}
    /\ \E order \in IterationOrders(DOMAIN loaded_modules_by_path) :
        /\ module_order' = order
        /\ path_to_key' = register_paths(EmptyMap, order)
    /\ pc' = "save_symbols"
    /\ UNCHANGED <<fifo_data, fs, metadata_file, perf_map_lines, files, save_result, run_result, warnings, harvest_left, jit_unwind_data_by_pid, artifacts>>
    /\ UNCHANGED <<parseVars, keyVars, fifoVars, codecVars, cellVars, jitVars, orchVars, knobVars>>

(* save_artifacts: save_symbols *)
SaveSymbols ==
    /\ pc = "save_symbols"
    /\ files' = write_all(files, symbol_files(loaded_modules_by_path, path_to_key))
    /\ artifacts' = [artifacts EXCEPT !.symbol_pid_mappings_by_pid =
                        symbol_mappings(loaded_modules_by_path, module_order, path_to_key)]
    /\ pc' = "save_debug_info"
    /\ UNCHANGED <<fifo_data, fs, metadata_file, perf_map_lines, save_result, run_result, warnings>>
    /\ UNCHANGED <<harvest_left, jit_unwind_data_by_pid, module_order, path_to_key>>
    /\ UNCHANGED <<parseVars, keyVars, fifoVars, codecVars, cellVars, jitVars, orchVars, knobVars>>

(* save_artifacts: save_debug_info *)
SaveDebugInfo ==
    /\ pc = "save_debug_info"
    /\ LET debug_info_by_elf_path == debug_info_by_path(loaded_modules_by_path)
       IN  \E order \in IterationOrders(DOMAIN debug_info_by_elf_path) :
             LET p2k == register_in_order(path_to_key, order)
             IN  /\ path_to_key' = p2k
                 /\ artifacts' =
                      [artifacts EXCEPT
                         !.debug_info =
                            [k \in {p2k[q] : q \in DOMAIN debug_info_by_elf_path} |->
                                debug_info_by_elf_path[
                                    CHOOSE q \in DOMAIN debug_info_by_elf_path : p2k[q] = k]],
                         !.mapped_process_debug_info_by_pid =
                            debug_info_mappings(loaded_modules_by_path, module_order, p2k)]
    /\ pc' = "save_unwind_data"
    /\ UNCHANGED <<fifo_data, fs, metadata_file, perf_map_lines, files, save_result, run_result, warnings, harvest_left, jit_unwind_data_by_pid, module_order>>
    /\ UNCHANGED <<parseVars, keyVars, fifoVars, codecVars, cellVars, jitVars, orchVars, knobVars>>

(* save_artifacts: save_unwind_data; the JIT map is walked in the order the *)
(* HashMap yields its pids                                                  *)
SaveUnwindData ==
    /\ pc = "save_unwind_data"
    /\ \E pid_order \in IterationOrders(DOMAIN jit_unwind_data_by_pid) :
         LET out == save_unwind_data(files, loaded_modules_by_path, module_order,
                                     jit_unwind_data_by_pid, pid_order, path_to_key)
         IN  /\ path_to_key' = out.p2k
             /\ files' = out.folder
             /\ artifacts' = [artifacts EXCEPT
                                 !.mapped_process_unwind_data_by_pid = out.mappings]
    /\ pc' = "collect"
    /\ UNCHANGED <<fifo_data, fs, metadata_file, perf_map_lines, save_result, run_result, warnings>>
    /\ UNCHANGED <<harvest_left, jit_unwind_data_by_pid, module_order>>
    /\ UNCHANGED <<parseVars, keyVars, fifoVars, codecVars, cellVars, jitVars, orchVars, knobVars>>

(* Mutant of key_to_path_of: the table is inverted as it was before the    *)
(* JIT paths were registered.                                              *)
key_to_path_before_jit(p2k) ==
    LET paths == {q \in DOMAIN p2k : ~StartsWith(q, <<"j", "i", "t", "_">>)}
    IN  [k \in {p2k[q] : q \in paths} |-> CHOOSE q \in paths : p2k[q] = k]

(* save_artifacts: path_to_key.into_iter().map(|(path, key)| (key, path))  *)
(* collected into a HashMap (one entry per key)                            *)
key_to_path_of(p2k) ==
    [k \in Range(p2k) |-> CHOOSE q \in DOMAIN p2k : p2k[q] = k]

(* save_artifacts: collect_ignored_modules and key_to_path; it returns *)
SaveArtifactsReturn ==
    /\ pc = "collect"
    /\ artifacts' = [artifacts EXCEPT
                        !.ignored_modules =
                            collect_ignored_modules(loaded_modules_by_path, module_order),
                        !.key_to_path = key_to_path_of(path_to_key)]
    /\ pc' = "metadata"
    /\ UNCHANGED <<fifo_data, fs, metadata_file, perf_map_lines, files, save_result, run_result, warnings, harvest_left, jit_unwind_data_by_pid, module_order,
                   path_to_key>>
    /\ UNCHANGED <<parseVars, keyVars, fifoVars, codecVars, cellVars, jitVars, orchVars, knobVars>>

(* save_to: `integration.ok_or(MissingIntegration)?` with no integration *)
MetadataMissingIntegration ==
    /\ pc = "metadata"
    /\ ~IsSome(fifo_data.integration)
    /\ save_result' = Some(Err("MissingIntegration"))
    /\ pc' = "save_to_returned"
    /\ UNCHANGED <<fifo_data, fs, metadata_file, perf_map_lines, files, run_result, warnings>>
    /\ UNCHANGED <<parseVars, writerVars, keyVars, fifoVars, codecVars, cellVars, jitVars, orchVars, knobVars>>

(* save_to: the metadata is built; PerfMetadata::save_to creates           *)
(* perf.metadata in place with File::create                                *)
MetadataCreate ==
    /\ pc = "metadata"
    /\ IsSome(fifo_data.integration)
    /\ files' = Written(files, PerfMetadataFile)
    /\ metadata_file' = "partial"
    /\ pc' = "metadata_write"
    /\ UNCHANGED <<fifo_data, fs, perf_map_lines, save_result, run_result, warnings>>
    /\ UNCHANGED <<parseVars, writerVars, keyVars, fifoVars, codecVars, cellVars, jitVars, orchVars, knobVars>>

(* PerfMetadata::save_to: serde_json::to_writer streams the whole record   *)
(* into the file and save_to returns Ok                                    *)
MetadataSave ==
    /\ pc = "metadata_write"
    /\ metadata_file' = "complete"
    /\ save_result' = Some(Ok(<<>>))
    /\ pc' = "save_to_returned"
    /\ UNCHANGED <<fifo_data, fs, files, perf_map_lines, run_result, warnings>>
    /\ UNCHANGED <<parseVars, writerVars, keyVars, fifoVars, codecVars, cellVars, jitVars, orchVars, knobVars>>

(* PerfMetadata::save_to: the write fails part-way (or the run is stopped  *)
(* there); save_to returns Err and the unwrap in BenchmarkData::save_to    *)
(* panics.  What was written stays in perf.metadata.                       *)
MetadataWriteFail ==
    /\ pc = "metadata_write"
    /\ pc' = "panicked_metadata_save"
    /\ UNCHANGED <<fifo_data, fs, files, metadata_file, perf_map_lines, save_result,
                   run_result, warnings>>
    /\ UNCHANGED <<parseVars, writerVars, keyVars, fifoVars, codecVars, cellVars, jitVars, orchVars, knobVars>>

(* Mutant of save_files_to: every error of save_to is logged and returned. *)
save_files_to_propagating(result) ==
    IF result.ok THEN [returns |-> Ok(<<>>), warned |-> 0]
    ELSE [returns |-> result, warned |-> 1]

(* PerfRunner::save_files_to on the result of save_to: what it returns and *)
(* how many warnings it logs                                               *)
save_files_to(result) ==
    IF result = Err("MissingIntegration")
    THEN [returns |-> Ok(<<>>), warned |-> 1]
    ELSE [returns |-> Ok(<<>>), warned |-> 0]

(* save_files_to: `if let Err(MissingIntegration) = save_to(..)`: a warning *)
(* is logged and Ok(()) is returned                                         *)
SaveFilesToWarn ==
    /\ pc = "save_to_returned"
    /\ save_result = Some(Err("MissingIntegration"))
    /\ warnings' = warnings + save_files_to(save_result.val).warned
    /\ run_result' = Some(save_files_to(save_result.val).returns)
    /\ pc' = "done"
    /\ UNCHANGED <<fifo_data, fs, metadata_file, perf_map_lines, files, save_result>>
    /\ UNCHANGED <<parseVars, writerVars, keyVars, fifoVars, codecVars, cellVars, jitVars, orchVars, knobVars>>

(* save_files_to: any other result of save_to does not match the pattern;   *)
(* the function falls through to its final Ok(())                           *)
SaveFilesToOk ==
    /\ pc = "save_to_returned"
    /\ save_result # Some(Err("MissingIntegration"))
    /\ warnings' = warnings + save_files_to(save_result.val).warned
    /\ run_result' = Some(save_files_to(save_result.val).returns)
    /\ pc' = "done"
    /\ UNCHANGED <<fifo_data, fs, metadata_file, perf_map_lines, files, save_result>>
    /\ UNCHANGED <<parseVars, writerVars, keyVars, fifoVars, codecVars, cellVars, jitVars, orchVars, knobVars>>

---------------------------------------------------------------------------
(* The parser on its own: every filter, every ELF assignment, any stream   *)
(* of at most MaxRecords records.                                          *)
ParseFifoDatas ==
    {[integration |-> Some(IntegrationPytest), bench_pids |-> s, exec_harness |-> FALSE] :
        s \in {{}, {100}, {100, 200}}}
    \cup {[integration |-> Some(IntegrationPytest), bench_pids |-> {100}, exec_harness |-> TRUE]}
ParseHostFiles == {[elf |-> e, jit |-> EmptyMap, perf_maps |-> {}] : e \in ElfAssignments}

InitParse == InitWith(ParseFifoDatas, ParseHostFiles) /\ FifoReturned
NextParse ==
    \/ SaveToStart
    \/ ParseOpen
    \/ ParseOpenFail
    \/ ReadFork(ParseRecords)
    \/ ReadMmap2(ParseRecords)
    \/ ReadOther
    \/ ReadTruncated
    \/ ParseEnd
SpecParse == InitParse /\ [][NextParse]_vars

---------------------------------------------------------------------------
(* The finalizer as a whole: save_files_to calling save_to, over captures   *)
(* of at most MaxRecords records made of a FORK and executable mappings of  *)
(* the two ELF paths.                                                       *)
FinalRecords ==
    {ForkRecord(100, 200)}
    \cup {Mmap2Record(100, 4096, 0, 5, path) : path \in ElfPaths}
    \cup {Mmap2Record(200, m[1], m[2], 5, path) :
            m \in {<<4096, 0>>, <<4096, 4096>>}, path \in ElfPaths}

FinalFifoDatas ==
    {[integration |-> None, bench_pids |-> {100}, exec_harness |-> FALSE],
     [integration |-> Some(IntegrationPytest), bench_pids |-> {100}, exec_harness |-> FALSE],
     [integration |-> Some(IntegrationPytest), bench_pids |-> {100}, exec_harness |-> TRUE]}

(* /tmp/jit-<pid>.dump files; /tmp/perf-100.map exists on the host *)
DumpF ==
    [corrupt |-> FALSE,
     records |-> <<CodeUnwindingInfo("eh1", "hdr1"), CodeLoad(<<"f">>, 256, 64, 7)>>]
DumpFGF ==
    [corrupt |-> FALSE,
     records |-> <<CodeUnwindingInfo("eh1", "hdr1"), CodeLoad(<<"f">>, 256, 64, 7),
                   CodeLoad(<<"g">>, 512, 64, 8),
                   CodeUnwindingInfo("eh2", "hdr2"), CodeUnwindingInfo("eh3", "hdr3"),
                   CodeLoad(<<"g">>, 768, 64, 9),
                   CodeUnwindingInfo("eh4", "hdr4"), CodeLoad(<<"f">>, 1024, 64, 10)>>]
DumpCorrupt == [corrupt |-> TRUE, records |-> <<>>]

JitAssignments ==
    {EmptyMap,
     [p \in {100} |-> DumpCorrupt],
     [p \in {100, 200} |-> IF p = 100 THEN DumpFGF ELSE DumpF]}

FinalElfAssignments ==
    {[q \in HostPaths |-> IF q = PathAX THEN a ELSE GoodElf] :
        a \in {GoodElf, StrippedElf, NotElf}}

FinalHostFiles ==
    {[elf |-> e, jit |-> j, perf_maps |-> {100}] :
        e \in FinalElfAssignments, j \in JitAssignments}

Init == InitWith(FinalFifoDatas, FinalHostFiles) /\ FifoReturned
Next ==
    \/ SaveToStart
    \/ ParseOpen
    \/ ParseOpenFail
    \/ ReadFork(FinalRecords)
    \/ ReadMmap2(FinalRecords)
    \/ ReadOther
    \/ ReadTruncated
    \/ ParseEnd
    \/ HarvestPid
    \/ HarvestAppendFail
    \/ RegisterPaths
    \/ SaveSymbols
    \/ SaveDebugInfo
    \/ SaveUnwindData
    \/ SaveArtifactsReturn
    \/ MetadataMissingIntegration
    \/ MetadataCreate
    \/ MetadataSave
    \/ MetadataWriteFail
    \/ SaveFilesToWarn
    \/ SaveFilesToOk
Spec == Init /\ [][Next]_vars

---------------------------------------------------------------------------
(* The key table on its own: any sequence of get_or_insert_key calls over   *)
(* module paths, a path without a file name and JIT paths.                  *)
KeyPaths == {PathAX, PathBX, PathAY, PathRoot, PathJitF, PathJitG}

InitKeys ==
    /\ InitWith(FinalFifoDatas, FinalHostFiles)
    /\ FifoReturned
    /\ fifo_data = [integration |-> None, bench_pids |-> {100}, exec_harness |-> FALSE]
    /\ fs = [elf |-> [q \in HostPaths |-> GoodElf], jit |-> EmptyMap, perf_maps |-> {100}]

(* one call get_or_insert_key(path_to_key, path) *)
GetOrInsertKey ==
    /\ \E path \in KeyPaths :
         LET out == get_or_insert_key(path_to_key, path)
         IN  /\ path_to_key' = out.map
             /\ returned' = Some([path |-> path, key |-> out.key])
             /\ registered' = IF path \in DOMAIN path_to_key THEN registered
                              ELSE Append(registered, path)
    /\ UNCHANGED <<finalVars, parseVars, fifoVars, codecVars, cellVars, jitVars, orchVars, knobVars>>
    /\ UNCHANGED <<harvest_left, jit_unwind_data_by_pid, module_order, artifacts>>

NextKeys == GetOrInsertKey
SpecKeys == InitKeys /\ [][NextKeys]_vars

---------------------------------------------------------------------------
(* handle_fifo on its own: the benchmark writes up to MaxCommands commands, *)
(* exits or crashes at any point, and the profiler may die at any point.    *)
InitFifo ==
    /\ InitWith(FinalFifoDatas, FinalHostFiles)
    /\ fifo_data = [integration |-> None, bench_pids |-> {100}, exec_harness |-> FALSE]
    /\ fs = [elf |-> [q \in HostPaths |-> GoodElf], jit |-> EmptyMap, perf_maps |-> {100}]
    /\ FifoStarted

(* the steps of the service loop *)
FifoLoopStep ==
    \/ PollChild
    \/ ReadCommand
    \/ ReadNothing
    \/ HandleCommand

NextFifo ==
    \/ BenchmarkSends
    \/ ChildExits
    \/ ProfilerDies
    \/ PollChild
    \/ ReadCommand
    \/ ReadNothing
    \/ HandleCommand

SpecFifo == InitFifo /\ [][NextFifo]_vars

(* the service loop is a task of the runner that is always scheduled: a    *)
(* step of the loop that stays possible is taken.  The benchmark and the   *)
(* profiler are under no obligation.                                       *)
SpecFifoFair == SpecFifo /\ WF_vars(FifoLoopStep)

---------------------------------------------------------------------------
(* ModuleSymbols::from_elf over many symbol tables: /a/x holds an ELF file *)
(* whose static table has up to MaxSymbols entries and whose dynamic table *)
(* has up to one, and a tracked pid maps it.                               *)
MaxSymbols == 2

SymbolPool ==
    {Sym(8192, 16, <<"f">>), Sym(8200, 16, <<"g">>), Sym(8192, 32, <<"h">>),
     Sym(8208, 0, <<"g">>), Sym(8208, 0, <<"k">>), Sym(0, 0, <<>>),
     Sym(8192, 0, <<"$", "x">>), Undefined(<<"p">>)}

SymbolTables(n) == UNION {[1..k -> SymbolPool] : k \in 0..n}

ElfObjects ==
    {[readable |-> TRUE,
      segments |-> <<Seg(0, 4096, 0), Seg(4096, 4096, 8192)>>,
      symtab   |-> st,
      dynsym   |-> dt,
      eh_frame |-> TRUE] : st \in SymbolTables(MaxSymbols), dt \in SymbolTables(1)}

ElfHostFiles ==
    {[elf |-> [q \in HostPaths |-> IF q = PathAX THEN o ELSE GoodElf],
      jit |-> EmptyMap, perf_maps |-> {}] : o \in ElfObjects}

ElfRecords == {ForkRecord(100, 200), Mmap2Record(100, 4096, 0, 5, PathAX)}

InitElf ==
    /\ InitWith({[integration |-> Some(IntegrationPytest), bench_pids |-> {100},
                  exec_harness |-> FALSE]}, ElfHostFiles)
    /\ FifoReturned

NextElf ==
    \/ SaveToStart
    \/ ParseOpen
    \/ ParseOpenFail
    \/ ReadFork(ElfRecords)
    \/ ReadMmap2(ElfRecords)
    \/ ReadOther
    \/ ReadTruncated
    \/ ParseEnd

SpecElf == InitElf /\ [][NextElf]_vars

---------------------------------------------------------------------------
(* The finalizer over a capture that maps an interpreter: /a/python3, with *)
(* or without .eh_frame, mapped by pid 100 and by its child 200.           *)
IgnoreRecords ==
    {ForkRecord(100, 200),
     Mmap2Record(100, 4096, 0, 5, PathPython),
     Mmap2Record(200, 8192, 4096, 5, PathPython),
     Mmap2Record(100, 4096, 0, 5, PathAX)}

IgnoreFifoDatas ==
    {[integration |-> None, bench_pids |-> {100}, exec_harness |-> FALSE],
     [integration |-> Some(IntegrationPytest), bench_pids |-> {100}, exec_harness |-> FALSE]}

IgnoreHostFiles ==
    {[elf |-> [q \in HostPaths \cup {PathPython} |-> IF q = PathPython THEN a ELSE GoodElf],
      jit |-> j, perf_maps |-> {100}] :
        a \in {GoodElf, NoEhFrameElf}, j \in {EmptyMap, [p \in {100} |-> DumpF]}}

InitIgnore == InitWith(IgnoreFifoDatas, IgnoreHostFiles) /\ FifoReturned

NextIgnore ==
    \/ SaveToStart
    \/ ParseOpen
    \/ ParseOpenFail
    \/ ReadFork(IgnoreRecords)
    \/ ReadMmap2(IgnoreRecords)
    \/ ReadOther
    \/ ReadTruncated
    \/ ParseEnd
    \/ HarvestPid
    \/ HarvestAppendFail
    \/ RegisterPaths
    \/ SaveSymbols
    \/ SaveDebugInfo
    \/ SaveUnwindData
    \/ SaveArtifactsReturn
    \/ MetadataMissingIntegration
    \/ MetadataCreate
    \/ MetadataSave
    \/ MetadataWriteFail
    \/ SaveFilesToWarn
    \/ SaveFilesToOk

SpecIgnore == InitIgnore /\ [][NextIgnore]_vars

---------------------------------------------------------------------------
(* The codec on its own: one file is written in one of the three formats   *)
(* and read by one of the two readers.                                     *)
InitCodec ==
    /\ InitWith(FinalFifoDatas, FinalHostFiles)
    /\ fifo_data = [integration |-> None, bench_pids |-> {100}, exec_harness |-> FALSE]
    /\ fs = [elf |-> [q \in HostPaths |-> GoodElf], jit |-> EmptyMap, perf_maps |-> {100}]
    /\ FifoReturned

NextCodec ==
    \/ UnwindDataV1_written
    \/ UnwindDataV2_to_file
    \/ UnwindDataV3_save_to
    \/ ParseAsV2
    \/ ParseAsV3

SpecCodec == InitCodec /\ [][NextCodec]_vars

---------------------------------------------------------------------------
(* into_unwind_data on its own, over every dump of up to MaxJitRecords     *)
(* records.                                                                *)
InitJit ==
    /\ pc = "save_to"
    /\ InitCore(FinalFifoDatas, FinalHostFiles)
    /\ OrchIdle
    /\ KnobIdle
    /\ fifo_data = [integration |-> None, bench_pids |-> {100}, exec_harness |-> FALSE]
    /\ fs = [elf |-> [q \in HostPaths |-> GoodElf], jit |-> EmptyMap, perf_maps |-> {100}]
    /\ FifoReturned
    /\ jit_records \in JitDumps
    /\ jit_pos = 0
    /\ current_unwind_info = None
    /\ harvested_unwind_data = <<>>

NextJit == JitNextRecord

SpecJit == InitJit /\ [][NextJit]_vars

---------------------------------------------------------------------------
(* execute on its own, over every configuration.                           *)
InitOrch ==
    /\ pc = "save_to"
    /\ InitCore(FinalFifoDatas, FinalHostFiles)
    /\ JitIdle
    /\ KnobIdle
    /\ fifo_data = [integration |-> None, bench_pids |-> {100}, exec_harness |-> FALSE]
    /\ fs = [elf |-> [q \in HostPaths |-> GoodElf], jit |-> EmptyMap, perf_maps |-> {100}]
    /\ FifoReturned
    /\ OrchStarted

NextOrch ==
    \/ ContextNew
    \/ ExecutorSetup
    \/ InstallMongodbTracer
    \/ MongoTracerStart
    \/ ExecutorRun
    \/ MongoTracerStop
    \/ ExecutorTeardown
    \/ PersistLog
    \/ SetOidcToken
    \/ Upload
    \/ PollResults

SpecOrch == InitOrch /\ [][NextOrch]_vars

---------------------------------------------------------------------------
(* setup_environment on its own, over every pair of knob values.           *)
InitSetup ==
    /\ pc = "save_to"
    /\ InitCore(FinalFifoDatas, FinalHostFiles)
    /\ JitIdle
    /\ OrchIdle
    /\ fifo_data = [integration |-> None, bench_pids |-> {100}, exec_harness |-> FALSE]
    /\ fs = [elf |-> [q \in HostPaths |-> GoodElf], jit |-> EmptyMap, perf_maps |-> {100}]
    /\ FifoReturned
    /\ KnobStarted

NextSetup ==
    \/ InstallPerf
    \/ ReadKptrRestrict
    \/ SetKptrRestrict
    \/ ReadPerfEventParanoid
    \/ SetPerfEventParanoid

SpecSetup == InitSetup /\ [][NextSetup]_vars

---------------------------------------------------------------------------
(* run_executor: executor.run, then executor.teardown.                     *)

(* Mutant of run_then_teardown: the result of the run is not looked at *)
run_then_teardown_unchecked(result) == "save_to"

(* what follows PerfRunner::run in run_executor: on_process_started        *)
(* returns the error of handle_fifo (`.await?`), run returns it, and       *)
(* run_executor returns it before teardown (`executor.run(..).await?`);    *)
(* after an Ok run the teardown calls save_files_to                        *)
run_then_teardown(result) ==
    IF result.ok THEN "save_to" ELSE "run_failed"

(* the capture file is written by `perf record -o - | cat > perf.pipedata` *)
(* under the bash child: cat holds it open while the child runs            *)
CaptureWriterOpen == child = ChildRunning

(* parse_for_memmap2 holds the capture open between File::open and its     *)
(* return                                                                  *)
CaptureReaderOpen == pc = "parse_loop"

(* on_process_started after handle_fifo: its error is returned by `?`      *)
(* before the cell is touched; its data are handed to the cell and the     *)
(* exit status is returned.  PerfRunner::run returns that; run_executor    *)
(* goes on to the teardown or returns the error                            *)
RunReturns ==
    /\ pc = "run"
    /\ fifo_pc = "returned"
    /\ IF handle_fifo_result.val.ok
       THEN benchmark_data' = once_cell_set(benchmark_data, BenchmarkDataOf(n_runs)).cell
       ELSE UNCHANGED benchmark_data
    /\ run_returned' = handle_fifo_result
    /\ pc' = run_then_teardown(handle_fifo_result.val)
    /\ UNCHANGED n_runs
    /\ UNCHANGED <<fifo_data, fs, metadata_file, perf_map_lines, files, save_result,
                   run_result, warnings>>
    /\ UNCHANGED <<parseVars, writerVars, keyVars, fifoVars, codecVars, jitVars, orchVars, knobVars>>

(* run is called again on the same PerfRunner, after a run that failed or  *)
(* before the teardown of a run that succeeded                             *)
RunAgain ==
    /\ pc \in {"run_failed", "save_to"}
    /\ n_runs < MaxRuns
    /\ n_runs' = n_runs + 1
    /\ pc' = "run"
    /\ fifo_pc' = "poll"
    /\ child' = ChildRunning
    /\ perf_alive' = TRUE
    /\ runner_fifo' = <<>>
    /\ n_sent' = 0
    /\ cmd' = NoCommand
    /\ perf_fifo' = <<>>
    /\ responses' = <<>>
    /\ handle_fifo_result' = None
    /\ run_returned' = None
    /\ UNCHANGED benchmark_data
    /\ UNCHANGED <<fifo_data, fs, metadata_file, perf_map_lines, files, save_result,
                   run_result, warnings>>
    /\ UNCHANGED <<parseVars, writerVars, keyVars, codecVars, jitVars, orchVars, knobVars>>

(* one capture, from the start of the benchmark to the return of the      *)
(* parser: the benchmark writes at most one command, the run returns, and  *)
(* save_to reads the capture                                               *)
InitRun ==
    /\ pc = "run"
    /\ InitState(FinalFifoDatas, FinalHostFiles)
    /\ fifo_data = [integration |-> Some(IntegrationPytest), bench_pids |-> {100},
                    exec_harness |-> FALSE]
    /\ fs = [elf |-> [q \in HostPaths |-> GoodElf], jit |-> EmptyMap, perf_maps |-> {100}]
    /\ FifoStarted

NextRun ==
    \/ BenchmarkSends /\ n_sent = 0
    \/ ChildExits
    \/ ProfilerDies
    \/ PollChild
    \/ ReadCommand
    \/ ReadNothing
    \/ HandleCommand
    \/ RunReturns
    \/ SaveToStart
    \/ ParseOpen
    \/ ParseOpenFail
    \/ ReadFork(FinalRecords)
    \/ ReadMmap2(FinalRecords)
    \/ ReadOther
    \/ ReadTruncated
    \/ ParseEnd

SpecRun == InitRun /\ [][NextRun]_vars

(* the same, with up to MaxRuns calls of run on the PerfRunner *)
NextCell ==
    \/ BenchmarkSends /\ n_sent = 0
    \/ ChildExits
    \/ ProfilerDies
    \/ PollChild
    \/ ReadCommand
    \/ ReadNothing
    \/ HandleCommand
    \/ RunReturns
    \/ RunAgain
    \/ SaveToStart
    \/ ParseOpen
    \/ ParseOpenFail
    \/ ReadFork(FinalRecords)
    \/ ReadMmap2(FinalRecords)
    \/ ReadOther
    \/ ReadTruncated
    \/ ParseEnd

SpecCell == InitRun /\ [][NextCell]_vars

---------------------------------------------------------------------------
(* Properties of the parser (checked under SpecParse). *)

(* the pids that a FORK met with its parent already tracked *)
AddedByFork == {f.pid : f \in {g \in fork_log : g.parent_tracked}}

(* C4: with filter TrackedPids(S0) the tracked set is, at every point of   *)
(* the loop and in the value returned, exactly S0 plus the pid of every    *)
(* FORK whose ppid was in the set when the record was processed.           *)
C4_TrackedIsForkClosure ==
    /\ pid_filter.kind = "TrackedPids" =>
          pid_filter.tracked = fifo_data.bench_pids \cup AddedByFork
    /\ (pc = "harvest" /\ ~is_exec_harness(fifo_data)) =>
          tracked_pids = fifo_data.bench_pids \cup AddedByFork

(* the fork chain FORK(100,200), FORK(200,300) from S0 = {100}, returned *)
C4_Witness ==
    /\ pc = "harvest"
    /\ fifo_data.bench_pids = {100}
    /\ ~is_exec_harness(fifo_data)
    /\ [ppid |-> 100, pid |-> 200, parent_tracked |-> TRUE] \in fork_log
    /\ [ppid |-> 200, pid |-> 300, parent_tracked |-> TRUE] \in fork_log
    /\ tracked_pids = {100, 200, 300}

(* a step of the loop that read an MMAP2 record under a TrackedPids filter *)
ReadsMmap2Tracked ==
    /\ n_read' = n_read + 1
    /\ record'.type = "MMAP2"
    /\ pid_filter.kind = "TrackedPids"

IsRealFilePath(path) ==
    /\ path # <<"/", "/", "a", "n", "o", "n">>
    /\ ~(Len(path) >= 2 /\ path[1] = "[" /\ path[Len(path)] = "]")

(* C6: the module index changes only on an MMAP2 record with PROT_EXEC,    *)
(* a pid the filter includes and a real file path; an MMAP2 of //anon or   *)
(* of a bracketed path never changes it.                                   *)
C6_IndexChangesOnlyOnRealExecMmap2 ==
    [][/\ loaded_modules_by_path' # loaded_modules_by_path =>
             /\ n_read' = n_read + 1
             /\ record'.type = "MMAP2"
             /\ HasBit(record'.protection, PROT_EXEC)
             /\ (pid_filter.kind = "All" \/ record'.pid \in pid_filter.tracked)
             /\ IsRealFilePath(record'.path)
       /\ (n_read' = n_read + 1 /\ record'.type = "MMAP2" /\ ~IsRealFilePath(record'.path)) =>
             loaded_modules_by_path' = loaded_modules_by_path]_vars

(* an executable, included MMAP2 of a bracketed path whose file exists on  *)
(* the host was read and is not in the index                               *)
C6_Witness ==
    /\ record.type = "MMAP2"
    /\ record.path = PathVdso
    /\ HasBit(record.protection, PROT_EXEC)
    /\ included
    /\ PathVdso \in DOMAIN fs.elf
    /\ PathVdso \notin DOMAIN loaded_modules_by_path

(* C7: per ELF path, symbol extraction and unwind extraction each run at   *)
(* most once over the whole stream.                                        *)
C7_ExtractedAtMostOncePerPath ==
    \A q \in DOMAIN elf_calls :
        /\ elf_calls[q].from_elf <= 1
        /\ elf_calls[q].unwind_data_from_elf <= 1

(* C8: a PID entry with a load bias lives in a module that has symbols.    *)
C8_LoadBiasImpliesModuleSymbols ==
    \A q \in DOMAIN loaded_modules_by_path :
        \A p \in pids_of(loaded_modules_by_path[q]) :
            IsSome(loaded_modules_by_path[q].process_loaded_modules[p].symbols_load_bias)
                => IsSome(loaded_modules_by_path[q].module_symbols)

---------------------------------------------------------------------------
(* Properties of the key table (checked under SpecKeys). *)

(* the last component of each path of KeyPaths, written out *)
Basename(path) ==
    IF path \in {PathAX, PathBX} THEN <<"x">>
    ELSE IF path = PathAY THEN <<"y">>
    ELSE IF path = PathRoot THEN <<>>
    ELSE path

(* the digits of the indices the model reaches *)
IndexDigits(i) == <<<<"0">>, <<"1">>, <<"2">>, <<"3">>, <<"4">>, <<"5">>>>[i + 1]

KeysInjective(p2k) == \A p, q \in DOMAIN p2k : p # q => p2k[p] # p2k[q]

KeysHaveShape ==
    /\ DOMAIN path_to_key = Range(registered)
    /\ \A i \in 1..Len(registered) :
          path_to_key[registered[i]] =
              IndexDigits(i - 1) \o <<"_", "_">> \o Basename(registered[i])

ReturnedIsTableKey ==
    IsSome(returned) =>
        /\ returned.val.path \in DOMAIN path_to_key
        /\ returned.val.key = path_to_key[returned.val.path]

(* C3: after any sequence of get_or_insert_key calls two distinct paths    *)
(* never hold the same key, a registered path keeps the key it was first   *)
(* given (and a repeated call hands that key back), and every key is       *)
(* <index>__<basename> with index the number of paths registered before.   *)
C3_KeysInjectiveStableShaped ==
    [][/\ \A p \in DOMAIN path_to_key :
             p \in DOMAIN path_to_key' /\ path_to_key'[p] = path_to_key[p]
       /\ KeysInjective(path_to_key')
       /\ KeysHaveShape'
       /\ ReturnedIsTableKey']_vars

(* two paths with the same basename are registered and the first one has   *)
(* just been registered again                                              *)
C3_Witness ==
    /\ Len(registered) >= 3
    /\ registered[1] = PathAX
    /\ PathBX \in Range(registered)
    /\ PathRoot \in Range(registered)
    /\ IsSome(returned)
    /\ returned.val.path = PathAX
    /\ returned.val.key = <<"0", "_", "_", "x">>

---------------------------------------------------------------------------
(* Properties of the finalizer (checked under Spec). *)

(* C1: when save_to returns MissingIntegration, finalization has written   *)
(* no file to the profile folder.                                          *)
C1_MissingIntegrationWritesNothing ==
    save_result = Some(Err("MissingIntegration")) => DOMAIN files = {}

(* C2: when save_to returns FailedToParsePerfFile or                       *)
(* FailedToHarvestJitDumps, save_files_to returns an error.                *)
C2_ParseAndHarvestErrorsAreFatal ==
    (/\ pc = "done"
     /\ save_result \in {Some(Err("FailedToParsePerfFile")),
                         Some(Err("FailedToHarvestJitDumps"))})
        => ~run_result.val.ok

(* save_artifacts has written the symbol and unwind files *)
ArtifactsSaved ==
    \/ pc \in {"collect", "metadata", "metadata_write"}
    \/ /\ pc \in {"save_to_returned", "done"}
       /\ save_result \in {Some(Ok(<<>>)), Some(Err("MissingIntegration"))}

(* the PIDs that share path q, once its symbols and unwind data are there *)
SharedLibrary(q) ==
    /\ q \in DOMAIN loaded_modules_by_path
    /\ IsSome(loaded_modules_by_path[q].module_symbols)
    /\ IsSome(loaded_modules_by_path[q].unwind_data)
    /\ Cardinality(pids_of(loaded_modules_by_path[q])) >= 2

(* the load bias of a mapping of GoodElf / StrippedElf (segments at file    *)
(* offsets 0 and 4096, the second one with p_vaddr 8192), written out       *)
BiasOfMapping(address, page_offset) ==
    IF page_offset = 0 THEN address ELSE (address + WordModulus - 8192) % WordModulus

(* C9: when two PIDs map the same library (an ELF file whose symbols and   *)
(* unwind data were extracted), the writer produces exactly one            *)
(* <key>.symbols.map and one <key>.unwind_data for the path, and           *)
(* mapped_process_module_symbols has exactly one entry with the path's key *)
(* under each of the PIDs, carrying the bias of that PID's own MMAP2.      *)
C9_SharedLibraryOneFileOwnBias ==
    ArtifactsSaved =>
        \A q \in ElfPaths : SharedLibrary(q) =>
            /\ files[SymbolsMapFile(path_to_key[q])] = 1
            /\ files[UnwindDataFile(path_to_key[q])] = 1
            /\ \A p \in pids_of(loaded_modules_by_path[q]) :
                  LET list == artifacts.symbol_pid_mappings_by_pid[p]
                      hits == {i \in 1..Len(list) : list[i].perf_map_key = path_to_key[q]}
                  IN  /\ Cardinality(hits) = 1
                      /\ \A i \in hits :
                            list[i].load_bias =
                                BiasOfMapping(last_mmap[<<q, p>>][1], last_mmap[<<q, p>>][2])

(* /a/x is mapped by 100 and by 200 at different biases and the writer ran *)
C9_Witness ==
    /\ pc = "done"
    /\ save_result = Some(Ok(<<>>))
    /\ SharedLibrary(PathAX)
    /\ pids_of(loaded_modules_by_path[PathAX]) = {100, 200}
    /\ last_mmap[<<PathAX, 100>>] # last_mmap[<<PathAX, 200>>]
    /\ PathBX \in DOMAIN loaded_modules_by_path

(* C10: the key of every path is fixed by the capture: the i-th path to    *)
(* enter the module index (the i-th first MMAP2) is registered i-th.       *)
C10_KeysFollowFirstMmap2Order ==
    pc \in {"save_symbols", "save_debug_info", "save_unwind_data", "collect"} =>
        \A i \in 1..Len(insertion_order) :
            path_to_key[insertion_order[i]] = indexed_semantic_key(i - 1, insertion_order[i])


(* save_artifacts has returned its SavedArtifacts *)
ArtifactsReturned ==
    \/ pc \in {"metadata", "metadata_write"}
    \/ /\ pc \in {"save_to_returned", "done"}
       /\ save_result \in {Some(Ok(<<>>)), Some(Err("MissingIntegration"))}

(* key k has exactly one entry in key_to_path, and it is the path k was    *)
(* assigned to                                                             *)
KeyMapsBackTo(k, path) ==
    /\ k \in DOMAIN artifacts.key_to_path
    /\ artifacts.key_to_path[k] = path
    /\ Cardinality({q \in DOMAIN path_to_key : path_to_key[q] = k}) = 1

(* C11: after save_artifacts every key of a symbols, debug-info or unwind  *)
(* list (JIT entries included) and every key of debug_info has exactly one *)
(* entry in key_to_path, which maps it back to the path it was assigned    *)
(* to: a module of the index mapped by that pid, or the JIT path of one of *)
(* that pid's harvested entries.                                           *)
C11_EveryKeyMapsBackToItsPath ==
    ArtifactsReturned =>
        /\ \A p \in DOMAIN artifacts.symbol_pid_mappings_by_pid :
              \A i \in 1..Len(artifacts.symbol_pid_mappings_by_pid[p]) :
                 \E q \in DOMAIN loaded_modules_by_path :
                    /\ p \in pids_of(loaded_modules_by_path[q])
                    /\ KeyMapsBackTo(artifacts.symbol_pid_mappings_by_pid[p][i].perf_map_key, q)
        /\ \A p \in DOMAIN artifacts.mapped_process_debug_info_by_pid :
              \A i \in 1..Len(artifacts.mapped_process_debug_info_by_pid[p]) :
                 \E q \in DOMAIN loaded_modules_by_path :
                    /\ p \in pids_of(loaded_modules_by_path[q])
                    /\ KeyMapsBackTo(
                          artifacts.mapped_process_debug_info_by_pid[p][i].debug_info_key, q)
        /\ \A p \in DOMAIN artifacts.mapped_process_unwind_data_by_pid :
              \A i \in 1..Len(artifacts.mapped_process_unwind_data_by_pid[p]) :
                 LET e == artifacts.mapped_process_unwind_data_by_pid[p][i]
                 IN  \/ \E q \in DOMAIN loaded_modules_by_path :
                           /\ p \in pids_of(loaded_modules_by_path[q])
                           /\ IsSome(loaded_modules_by_path[q].unwind_data)
                           /\ KeyMapsBackTo(e.unwind_data_key, q)
                     \/ /\ p \in DOMAIN jit_unwind_data_by_pid
                        /\ \E j \in 1..Len(jit_unwind_data_by_pid[p]) :
                              /\ jit_unwind_data_by_pid[p][j].process_unwind_data = e.inner
                              /\ KeyMapsBackTo(e.unwind_data_key,
                                               jit_unwind_data_by_pid[p][j].unwind_data.path)
        /\ \A k \in DOMAIN artifacts.debug_info :
              KeyMapsBackTo(k, artifacts.debug_info[k].object_path)

(* the writer returned lists with module keys and JIT keys *)
C11_Witness ==
    /\ ArtifactsReturned
    /\ 100 \in DOMAIN artifacts.symbol_pid_mappings_by_pid
    /\ Len(artifacts.symbol_pid_mappings_by_pid[100]) = 2
    /\ 100 \in DOMAIN artifacts.mapped_process_unwind_data_by_pid
    /\ \E i \in 1..Len(artifacts.mapped_process_unwind_data_by_pid[100]) :
          /\ artifacts.mapped_process_unwind_data_by_pid[100][i].unwind_data_key
                \in DOMAIN artifacts.key_to_path
          /\ artifacts.key_to_path[
                artifacts.mapped_process_unwind_data_by_pid[100][i].unwind_data_key] = PathJitG
    /\ artifacts.debug_info # EmptyMap

(* a <= b in bytewise lexicographic order: a is a prefix of b, or at the   *)
(* first position where they differ a holds the smaller byte               *)
KeyLeq(a, b) ==
    LET common == {n \in 0..Len(a) : n <= Len(b) /\ SubSeq(a, 1, n) = SubSeq(b, 1, n)}
        n == CHOOSE m \in common : \A k \in common : k <= m
    IN  \/ n = Len(a)
        \/ n < Len(b) /\ Ord(a[n + 1]) < Ord(b[n + 1])

(* C12: in the SavedArtifacts every per-PID list (module symbols, debug    *)
(* info, unwind data with its JIT entries) is in non-decreasing            *)
(* lexicographic order of its key.                                         *)
C12_PerPidListsSortedByKey ==
    ArtifactsReturned =>
        /\ \A p \in DOMAIN artifacts.symbol_pid_mappings_by_pid :
              LET l == artifacts.symbol_pid_mappings_by_pid[p]
              IN  \A i \in 1..Len(l) - 1 : KeyLeq(l[i].perf_map_key, l[i + 1].perf_map_key)
        /\ \A p \in DOMAIN artifacts.mapped_process_debug_info_by_pid :
              LET l == artifacts.mapped_process_debug_info_by_pid[p]
              IN  \A i \in 1..Len(l) - 1 : KeyLeq(l[i].debug_info_key, l[i + 1].debug_info_key)
        /\ \A p \in DOMAIN artifacts.mapped_process_unwind_data_by_pid :
              LET l == artifacts.mapped_process_unwind_data_by_pid[p]
              IN  \A i \in 1..Len(l) - 1 :
                      KeyLeq(l[i].unwind_data_key, l[i + 1].unwind_data_key)

(* pid 100 has an unwind list with module entries and with JIT entries     *)
(* harvested in the order f, g, f, and a symbols list of two modules       *)
C12_Witness ==
    /\ ArtifactsReturned
    /\ 100 \in DOMAIN jit_unwind_data_by_pid
    /\ Len(jit_unwind_data_by_pid[100]) = 3
    /\ 100 \in DOMAIN artifacts.mapped_process_unwind_data_by_pid
    /\ Len(artifacts.mapped_process_unwind_data_by_pid[100]) = 5
    /\ 100 \in DOMAIN artifacts.symbol_pid_mappings_by_pid
    /\ Len(artifacts.symbol_pid_mappings_by_pid[100]) = 2

---------------------------------------------------------------------------
(* C13: perf.metadata becomes visible atomically: under its final name it  *)
(* is never a partially written file, at no point of a run, a crashed or   *)
(* stopped write included.                                                 *)
C13_MetadataNeverPartial ==
    /\ metadata_file # "partial"
    /\ PerfMetadataFile \in DOMAIN files => metadata_file = "complete"

(* C14: when /tmp/perf-<pid>.map exists on the host for a pid whose JIT    *)
(* symbols were appended, <profile_folder>/perf-<pid>.map holds the host    *)
(* file's content followed by the JIT symbol lines.                         *)
C14_HostPerfMapThenJitSymbols ==
    \A pid \in DOMAIN perf_map_lines :
        pid \in fs.perf_maps =>
            perf_map_lines[pid] = <<HostPerfMap, into_perf_map(fs.jit[pid]).val>>

(* handle_fifo has returned Ok with the exit status of the child *)
ReturnedExitStatus ==
    /\ IsSome(handle_fifo_result)
    /\ handle_fifo_result.val.ok
    /\ handle_fifo_result.val.val.exit_status = child.status

(* C15: under fairness of the service loop, from any state in which the    *)
(* child has terminated (a crash without StopBenchmark included)           *)
(* handle_fifo eventually returns the child's exit status with the         *)
(* benchmark data; it does not stay blocked on a FIFO read.                *)
C15_ReturnsExitStatusOnceChildExited ==
    (child.state = "exited") ~> ReturnedExitStatus

(* a step in which on_cmd services a PingPerf *)
ServicesPingPerf ==
    /\ fifo_pc = "handle"
    /\ cmd = "PingPerf"
    /\ fifo_pc' # "handle"

(* C17: servicing PingPerf makes exactly one ping call on the profiler     *)
(* FIFO and writes back exactly one response, Ack when the ping succeeded  *)
(* and Err when it failed; in both cases handle_fifo has not returned and  *)
(* the loop goes on with its next poll.                                    *)
C17_PingPerfAnswersOnceAndGoesOn ==
    [][ServicesPingPerf =>
          /\ perf_fifo' = Append(perf_fifo, "ping")
          /\ responses' = Append(responses, IF perf_alive THEN "Ack" ELSE "Err")
          /\ fifo_pc' = "poll"
          /\ handle_fifo_result' = None]_vars

(* a PingPerf was answered Err, and the loop went on to answer a later     *)
(* command                                                                 *)
C17_Witness ==
    /\ Len(responses) >= 2
    /\ responses[1] = "Err"
    /\ perf_fifo[1] = "ping"
    /\ ~perf_alive
    /\ fifo_pc = "poll"
    /\ handle_fifo_result = None

(* C18: with filter All the tracked_pids returned by the parse are every   *)
(* pid carried by a record of the capture, with no initial restriction.    *)
C18_AllTracksEveryObservedPid ==
    (pc = "harvest" /\ is_exec_harness(fifo_data)) => tracked_pids = observed_pids

(* C19: a capture that cannot be parsed, a truncated one included, makes   *)
(* save_to return FailedToParsePerfFile: the run does not crash in the     *)
(* record loop, and the profile folder holds no perf.metadata.             *)
C19_TruncatedCaptureReturnsError ==
    /\ pc # "panicked_next_record"
    /\ save_result = Some(Err("FailedToParsePerfFile")) =>
          PerfMetadataFile \notin DOMAIN files

---------------------------------------------------------------------------
(* C21: during finalization every artifact file is written exactly once:   *)
(* no <key>.symbols.map and no <key>.unwind_data file of the profile folder *)
(* is written a second time, whatever the module index and the JIT input.  *)
C21_ArtifactFilesWrittenOnce ==
    \A f \in DOMAIN files :
        f.name \in {"<key>.symbols.map", "<key>.unwind_data"} => files[f] <= 1

---------------------------------------------------------------------------
(* C22: the capture file has one writer and one reader that never overlap: *)
(* the parser holds the file open only when the child (the bash, perf and  *)
(* cat pipeline) has exited, and the finalizer starts only after it.       *)
C22_ParserReadsAfterWriterClosed ==
    /\ ~(CaptureReaderOpen /\ CaptureWriterOpen)
    /\ pc \notin {"run", "run_failed"} => child.state = "exited"

(* the parser reads the capture of a run whose benchmark sent a command    *)
(* and then crashed                                                        *)
C22_Witness ==
    /\ CaptureReaderOpen
    /\ child = ChildExited(1)
    /\ n_sent = 1
    /\ n_read > 0

---------------------------------------------------------------------------
(* the JIT symbols appended to perf-<pid>.map *)
JitSymbolsOf(pid) == perf_map_lines[pid][Len(perf_map_lines[pid])]

(* symbol s and JIT unwind entry e describe the same CodeLoad *)
SameCodeLoad(s, e) ==
    /\ e.unwind_data.path = <<"j", "i", "t", "_">> \o s.name
    /\ e.process_unwind_data.avma_range = <<s.addr, s.addr + s.size>>

(* C23: a CodeLoad that arrives while the unwind-info slot is empty emits  *)
(* nothing: the symbols appended to perf-<pid>.map and the JIT unwind      *)
(* entries of that pid correspond one to one.                              *)
C23_JitSymbolsMatchUnwindEntries ==
    \A pid \in DOMAIN jit_unwind_data_by_pid :
        /\ pid \in DOMAIN perf_map_lines
        /\ Len(JitSymbolsOf(pid)) = Len(jit_unwind_data_by_pid[pid])
        /\ \A i \in 1..Len(JitSymbolsOf(pid)) :
              SameCodeLoad(JitSymbolsOf(pid)[i], jit_unwind_data_by_pid[pid][i])

---------------------------------------------------------------------------
(* Properties of ModuleSymbols::from_elf (checked under SpecElf). *)

(* the ModuleSymbols that from_elf returned and the index holds *)
ExtractedSymbols ==
    {loaded_modules_by_path[q].module_symbols.val :
        q \in {r \in DOMAIN loaded_modules_by_path :
                  IsSome(loaded_modules_by_path[r].module_symbols)}}

(* C24: every symbol of a ModuleSymbols returned by from_elf has a         *)
(* non-empty name and a size greater than zero, and the sequence is sorted *)
(* by non-decreasing address; when no symbol is retained from_elf fails    *)
(* and no empty ModuleSymbols is returned.                                 *)
C24_RetainedSymbolsNamedSizedSorted ==
    /\ \A symbols \in ExtractedSymbols :
          /\ symbols # <<>>
          /\ \A i \in 1..Len(symbols) : symbols[i].name # <<>> /\ symbols[i].size > 0
          /\ \A i \in 1..Len(symbols) - 1 : symbols[i].addr <= symbols[i + 1].addr
    /\ \A q \in DOMAIN loaded_modules_by_path :
          LET result == from_elf(fs.elf, q)
          IN  /\ result.ok => result.val # <<>>
              /\ loaded_modules_by_path[q].module_symbols =
                    (IF result.ok THEN Some(result.val) ELSE None)

(* /a/x lists g before f and g has no size: from_elf returned f, then g    *)
(* extended to the end of the next page                                    *)
C24_Witness ==
    /\ PathAX \in DOMAIN loaded_modules_by_path
    /\ fs.elf[PathAX].symtab = <<Sym(8208, 0, <<"g">>), Sym(8192, 16, <<"f">>)>>
    /\ fs.elf[PathAX].dynsym = <<>>
    /\ loaded_modules_by_path[PathAX].module_symbols =
          Some(<<Sym(8192, 16, <<"f">>), Sym(8208, 8176, <<"g">>)>>)

(* C25: in a ModuleSymbols returned by from_elf no two symbols overlap     *)
(* after the zero-size extension: consecutive symbols s, t satisfy         *)
(* s.addr + s.size <= t.addr.                                              *)
C25_RetainedSymbolsDoNotOverlap ==
    \A symbols \in ExtractedSymbols :
        \A i \in 1..Len(symbols) - 1 :
            symbols[i].addr + symbols[i].size <= symbols[i + 1].addr

(* C26: from_elf keeps only definitions: no undefined entry of the static  *)
(* or dynamic symbol table is in the ModuleSymbols returned for the file.  *)
C26_UndefinedSymbolsDropped ==
    \A q \in DOMAIN loaded_modules_by_path :
        IsSome(loaded_modules_by_path[q].module_symbols) =>
            LET entries == fs.elf[q].symtab \o fs.elf[q].dynsym
                symbols == loaded_modules_by_path[q].module_symbols.val
            IN  \A i \in 1..Len(entries) :
                    "undefined" \in DOMAIN entries[i] =>
                        \A j \in 1..Len(symbols) :
                            ~(symbols[j].name = entries[i].name
                              /\ symbols[j].addr = entries[i].addr)

---------------------------------------------------------------------------
(* the (path, pid) overlays of the index that store a load bias *)
BiasedOverlays ==
    {k \in DOMAIN last_mmap :
        /\ k[1] \in DOMAIN loaded_modules_by_path
        /\ k[2] \in DOMAIN loaded_modules_by_path[k[1]].process_loaded_modules
        /\ IsSome(loaded_modules_by_path[k[1]].process_loaded_modules[k[2]].symbols_load_bias)}

StoredLoadBias(k) ==
    loaded_modules_by_path[k[1]].process_loaded_modules[k[2]].symbols_load_bias.val

(* the PT_LOAD segment of the file at `path` whose file range holds offset *)
SegmentHolding(path, offset) ==
    LET segments == fs.elf[path].segments
        hits == {i \in 1..Len(segments) :
                    /\ segments[i].p_offset <= offset
                    /\ offset < segments[i].p_offset + segments[i].p_filesz}
    IN  segments[CHOOSE i \in hits : \A j \in hits : i <= j]

(* C27 as stated: for every overlay, runtime_start == base_svma + load_bias *)
(* (modulo the word size), with base_svma the lowest PT_LOAD p_vaddr, for   *)
(* mappings of any PT_LOAD segment.                                         *)
C27_RuntimeStartIsBaseSvmaPlusBias ==
    \A k \in BiasedOverlays :
        last_mmap[k][1] = wrapping_add(base_svma_of(fs.elf[k[1]]), StoredLoadBias(k))

(* C27, amended: for every overlay, runtime_start is the svma of the mapped *)
(* file offset plus the load bias:                                          *)
(*   runtime_start == segment.p_vaddr + (runtime_offset - segment.p_offset) *)
(*                    + load_bias   (modulo the word size)                  *)
(* for the PT_LOAD segment that holds runtime_offset, first or not.        *)
C27_RuntimeStartIsSegmentSvmaPlusBias ==
    \A k \in BiasedOverlays :
        LET seg == SegmentHolding(k[1], last_mmap[k][2])
        IN  last_mmap[k][1] =
                wrapping_add(wrapping_add(seg.p_vaddr,
                                          wrapping_sub(last_mmap[k][2], seg.p_offset)),
                             StoredLoadBias(k))

(* /a/x mapped by pid 100 at 4096 from file offset 4096: the second        *)
(* segment (p_vaddr 8192), mapped below its p_vaddr, so the bias wraps     *)
C27_Witness ==
    /\ <<PathAX, 100>> \in BiasedOverlays
    /\ last_mmap[<<PathAX, 100>>] = <<4096, 4096>>
    /\ StoredLoadBias(<<PathAX, 100>>) = WordModulus - 4096

---------------------------------------------------------------------------
(* the modules collect_ignored_modules is about: on the built-in ignore    *)
(* list, or with a file name that starts with "python"                     *)
IsIgnoredModule(q) ==
    \/ q \in get_objects_path_to_ignore
    \/ /\ IsSome(file_name(q))
       /\ StartsWith(file_name(q).val, <<"p", "y", "t", "h", "o", "n">>)

(* the entries of ignored_modules for the mapping of module q by pid p *)
IgnoredEntriesOf(q, p) ==
    {h \in DOMAIN artifacts.ignored_modules :
        artifacts.ignored_modules[h] =
            <<q, <<last_mmap[<<q, p>>][1], last_mmap[<<q, p>>][1] + PAGE_SIZE>>>>}

(* C28: for every module of the index that is on the ignore list or whose  *)
(* basename starts with "python", and for every pid that maps it,          *)
(* ignored_modules holds one entry (path, avma_start, avma_end) of that    *)
(* mapping; the module still has its symbols and unwind files written.     *)
C28_IgnoredModulesListEveryPidMapping ==
    ArtifactsReturned =>
        \A q \in DOMAIN loaded_modules_by_path :
            IsIgnoredModule(q) =>
                /\ \A p \in pids_of(loaded_modules_by_path[q]) :
                      Cardinality(IgnoredEntriesOf(q, p)) = 1
                /\ IsSome(loaded_modules_by_path[q].module_symbols) =>
                      SymbolsMapFile(path_to_key[q]) \in DOMAIN files
                /\ IsSome(loaded_modules_by_path[q].unwind_data) =>
                      UnwindDataFile(path_to_key[q]) \in DOMAIN files

---------------------------------------------------------------------------
(* The manifest perf.metadata: the PerfMetadata that save_to builds, and   *)
(* its serde form.                                                         *)

PERF_METADATA_CURRENT_VERSION == 1

(* the fields of PerfMetadata that carry                                   *)
(* #[serde(default, skip_serializing_if = "HashMap::is_empty")]            *)
SkippedWhenEmpty ==
    {"ignored_modules_by_pid", "debug_info", "mapped_process_debug_info_by_pid",
     "mapped_process_unwind_data_by_pid", "mapped_process_module_symbols",
     "path_key_to_path", "debug_info_by_pid"}

(* the fields of PerfMetadata with no serde attribute: always written, and *)
(* required by the derived Deserialize                                     *)
AlwaysSerialized == {"version", "integration", "uri_by_ts", "ignored_modules", "markers"}

(* the fields kept for backward compatibility (marked #[deprecated]) *)
DeprecatedFields == {"uri_by_ts", "ignored_modules", "markers", "debug_info_by_pid"}

(* the PerfMetadata literal of BenchmarkData::save_to; the run recorded no *)
(* marker, so that marker_result.uri_by_ts and .markers are empty          *)
perf_metadata ==
    [version |-> PERF_METADATA_CURRENT_VERSION,
     integration |-> fifo_data.integration.val,
     uri_by_ts |-> <<>>,
     ignored_modules |-> artifacts.ignored_modules,
     markers |-> <<>>,
     debug_info |-> artifacts.debug_info,
     mapped_process_debug_info_by_pid |-> artifacts.mapped_process_debug_info_by_pid,
     mapped_process_unwind_data_by_pid |-> artifacts.mapped_process_unwind_data_by_pid,
     mapped_process_module_symbols |-> artifacts.symbol_pid_mappings_by_pid,
     path_key_to_path |-> artifacts.key_to_path,
     ignored_modules_by_pid |-> <<>>,
     debug_info_by_pid |-> <<>>]

(* serde_json::to_writer on a PerfMetadata: the JSON object, as the map    *)
(* from the keys it holds to their values                                  *)
to_writer(metadata) ==
    LET present == {f \in DOMAIN metadata :
                        f \in SkippedWhenEmpty => DOMAIN metadata[f] # {}}
    IN  [f \in present |-> metadata[f]]

(* PerfMetadata::from_reader on a JSON object: a field with                *)
(* #[serde(default)] may be absent, any other absent field is the serde    *)
(* error `missing field`                                                   *)
from_reader(json) ==
    IF AlwaysSerialized \subseteq DOMAIN json
    THEN Ok([f \in AlwaysSerialized \cup SkippedWhenEmpty |->
                IF f \in DOMAIN json THEN json[f] ELSE <<>>])
    ELSE Err("Could not parse perf metadata from JSON")

(* a JSON object without the keys of the set absent *)
WithoutKeys(json, absent) == [f \in DOMAIN json \ absent |-> json[f]]

(* C29: the manifest written by the current writer holds none of the       *)
(* backward-compat fields uri_by_ts, ignored_modules, markers and          *)
(* debug_info_by_pid, and the reader accepts a manifest in which they are  *)
(* absent.                                                                 *)
C29_DeprecatedFieldsOmitted ==
    metadata_file = "complete" =>
        /\ DOMAIN to_writer(perf_metadata) \cap DeprecatedFields = {}
        /\ from_reader(WithoutKeys(to_writer(perf_metadata), DeprecatedFields)).ok

---------------------------------------------------------------------------
(* C30: the version gates of the unwind codec.  A V1 or V2 payload parsed  *)
(* with UnwindDataV3::parse is an error, a V3 payload parsed with          *)
(* UnwindDataV2::parse is an error; a V3 payload parsed as V3 and a V2     *)
(* payload parsed as V2 give back the value that was written; a V1 payload *)
(* parsed as V2 gives the same fields with timestamp = None.               *)
C30_VersionGates ==
    codec_pc = "parsed" =>
        LET written == unwind_written.val
            parsed == unwind_parsed.val
        IN  /\ (unwind_reader = "V3" /\ written.version \in {1, 2}) => ~parsed.ok
            /\ (unwind_reader = "V2" /\ written.version = 3) => ~parsed.ok
            /\ (unwind_reader = "V3" /\ written.version = 3) => parsed = Ok(written.data)
            /\ (unwind_reader = "V2" /\ written.version = 2) => parsed = Ok(written.data)
            /\ (unwind_reader = "V2" /\ written.version = 1) =>
                  /\ parsed.ok
                  /\ DOMAIN parsed.val = Range(V2Fields)
                  /\ parsed.val.timestamp = None
                  /\ \A f \in Range(V1Fields) : parsed.val[f] = written.data[f]

(* a V2 payload with a timestamp, a path and both byte vectors was handed  *)
(* to UnwindDataV3::parse and refused                                      *)
C30_Witness ==
    /\ codec_pc = "parsed"
    /\ unwind_reader = "V3"
    /\ unwind_written.val.version = 2
    /\ unwind_written.val.data.timestamp = Some(12345)
    /\ unwind_written.val.data.path = PathAX
    /\ unwind_written.val.data.eh_frame_hdr = <<1>>
    /\ unwind_written.val.data.eh_frame = <<2>>
    /\ Len(unwind_payload) > 10
    /\ ~unwind_parsed.val.ok

---------------------------------------------------------------------------
(* a step in which run returns the error of the FIFO service loop *)
RunReturnsFifoError ==
    /\ pc = "run"
    /\ pc' # "run"
    /\ ~handle_fifo_result.val.ok

(* C31: BenchmarkData is stored in the cell of the PerfRunner once, on     *)
(* child exit, and the finalizer reads that value: save_files_to is        *)
(* reached only with the cell set; a stored value is never replaced, a     *)
(* second store attempt included; when the FIFO service loop returns an    *)
(* error the cell is left as it was (unset on a first run) and run returns *)
(* that error.                                                             *)
C31_BenchmarkDataStoredOnce ==
    /\ [](pc \notin {"run", "run_failed"} => IsSome(benchmark_data))
    /\ [](pc # "panicked_benchmark_data")
    /\ []((n_runs = 1 /\ pc = "run_failed") => ~IsSome(benchmark_data))
    /\ [][IsSome(benchmark_data) => benchmark_data' = benchmark_data]_vars
    /\ [][RunReturnsFifoError =>
             /\ benchmark_data' = benchmark_data
             /\ run_returned' = handle_fifo_result
             /\ ~run_returned'.val.ok]_vars

(* a second run on the same PerfRunner has returned Ok and the cell still  *)
(* holds the data of the first                                             *)
C31_Witness ==
    /\ n_runs = 2
    /\ pc = "parse_loop"
    /\ run_returned = Some(Ok([exit_status |-> 1]))
    /\ benchmark_data = Some(BenchmarkDataOf(1))

---------------------------------------------------------------------------
(* the record the reader handles in this step, and the one before it *)
JitCurrent == jit_records[jit_pos + 1]
JitPrevious == jit_records[jit_pos]

(* a step in which into_unwind_data handles a CodeLoad *)
HandlesCodeLoad ==
    /\ jit_pos' = jit_pos + 1
    /\ JitCurrent.kind = "CodeLoad"

(* C32: the unwind-info slot holds at most one record and a buffered       *)
(* record serves at most one CodeLoad: after every CodeLoad the slot is    *)
(* empty; a CodeLoad emits one entry when the slot was full and none when  *)
(* it was empty; a CodeLoad that follows a CodeLoad emits nothing; a       *)
(* CodeLoad that follows a CodeUnwindingInfo (the later of two in a row    *)
(* included) emits one entry with the blobs of that record.                *)
C32_UnwindInfoSlotTakenOnce ==
    [][HandlesCodeLoad =>
          /\ current_unwind_info' = None
          /\ IsSome(current_unwind_info) =>
                Len(harvested_unwind_data') = Len(harvested_unwind_data) + 1
          /\ ~IsSome(current_unwind_info) =>
                harvested_unwind_data' = harvested_unwind_data
          /\ (jit_pos > 0 /\ JitPrevious.kind = "CodeLoad") =>
                harvested_unwind_data' = harvested_unwind_data
          /\ (jit_pos > 0 /\ JitPrevious.kind = "CodeUnwindingInfo") =>
                /\ Len(harvested_unwind_data') = Len(harvested_unwind_data) + 1
                /\ Last(harvested_unwind_data').unwind_data.eh_frame = JitPrevious.eh_frame
                /\ Last(harvested_unwind_data').unwind_data.eh_frame_hdr =
                      JitPrevious.eh_frame_hdr]_vars

(* two CodeUnwindingInfo in a row, then two CodeLoad in a row: one entry,  *)
(* with the blobs of the later unwind info, and an empty slot              *)
C32_Witness ==
    /\ jit_pos = 4
    /\ jit_records[1] = CodeUnwindingInfo("eh1", "hdr1")
    /\ jit_records[2] = CodeUnwindingInfo("eh2", "hdr2")
    /\ jit_records[3].kind = "CodeLoad"
    /\ jit_records[4].kind = "CodeLoad"
    /\ Len(harvested_unwind_data) = 1
    /\ harvested_unwind_data[1].unwind_data.eh_frame = "eh2"
    /\ current_unwind_info = None

---------------------------------------------------------------------------
(* the named symbols of an ELF object, sorted by address: what the         *)
(* zero-size extension of from_elf starts from                             *)
SortedNamedSymbols(object) ==
    sort_by_addr(SelectSeq(read_symbols(object),
                           LAMBDA s : s.name # <<>> /\ ~is_arm_mapping_symbol(s.name)))

(* the size the i-th sorted symbol ends with *)
NormalizedSize(sorted, i) ==
    IF sorted[i].size # 0 THEN sorted[i].size
    ELSE IF i < Len(sorted) THEN sorted[i + 1].addr - sorted[i].addr
    ELSE ((sorted[i].addr + 4095) \div 4096) * 4096 + 4096 - sorted[i].addr

(* C33: the zero-size extension of from_elf.  After the sort by address a  *)
(* zero-sized symbol that is not last gets the distance to the next        *)
(* symbol's address, a zero-sized last symbol at a gets                    *)
(* roundup(a, 4096) + 4096 - a, a symbol whose size is still zero is       *)
(* dropped, and a symbol with a size keeps it: the ModuleSymbols returned  *)
(* are the sorted symbols with these sizes, less those of size zero.       *)
C33_ZeroSizedSymbolsExtended ==
    \A q \in DOMAIN loaded_modules_by_path :
        IsSome(loaded_modules_by_path[q].module_symbols) =>
            LET sorted == SortedNamedSymbols(fs.elf[q])
                sized == [i \in 1..Len(sorted) |->
                             Sym(sorted[i].addr, NormalizedSize(sorted, i), sorted[i].name)]
            IN  loaded_modules_by_path[q].module_symbols.val =
                    SelectSeq(sized, LAMBDA s : s.size # 0)

(* p at 0 without a size is followed by k and g at 8208, both without a    *)
(* size: p reaches to 8208, k is dropped, g as the last symbol reaches to  *)
(* the end of the next page                                                *)
C33_Witness ==
    /\ PathAX \in DOMAIN loaded_modules_by_path
    /\ fs.elf[PathAX].symtab = <<Undefined(<<"p">>), Sym(8208, 0, <<"k">>)>>
    /\ fs.elf[PathAX].dynsym = <<Sym(8208, 0, <<"g">>)>>
    /\ loaded_modules_by_path[PathAX].module_symbols =
          Some(<<Sym(0, 8208, <<"p">>), Sym(8208, 8176, <<"g">>)>>)

---------------------------------------------------------------------------
(* Properties of run_executor and Orchestrator::execute (checked under     *)
(* SpecOrch).                                                              *)

(* the calls of run_executor, in the order of its phases *)
ExecutorCalls == SetupCalls \cup RunCalls \cup {"teardown", "persist_log"}
PhaseRank(call) ==
    CASE call = "context" -> 0
      [] call = "setup" -> 1
      [] call = "install_mongodb_tracer" -> 2
      [] call = "mongo_tracer_start" -> 3
      [] call = "run" -> 4
      [] call = "mongo_tracer_stop" -> 5
      [] call = "teardown" -> 6
      [] OTHER -> 7

(* the calls made for the mode m by its run_executor *)
ExecutorCallsOf(m) ==
    SelectSeq(orch_calls, LAMBDA c : c.mode = m /\ c.call \in ExecutorCalls)

(* the last call made was ExecutionContext::new and it returned Ok:        *)
(* run_executor is entered                                                 *)
RunExecutorEntered ==
    /\ orch_calls # <<>>
    /\ Last(orch_calls).call = "context"
    /\ Last(orch_calls).ok

(* C34: run_executor runs setup, run, teardown, log persistence in that    *)
(* order and never uploads; the teardown is made only after the run        *)
(* returned Ok; a failure in setup or run ends run_executor with that      *)
(* error, with no teardown and no log persistence; skip_setup skips only   *)
(* the setup; skip_run skips run, teardown and log persistence together.   *)
C34_RunExecutorPhases ==
    /\ \A m \in RunnerModes :
          LET calls == ExecutorCallsOf(m)
          IN  /\ \A i \in 1..Len(calls) - 1 :
                    /\ PhaseRank(calls[i].call) < PhaseRank(calls[i + 1].call)
                    /\ calls[i].ok
              /\ \A i \in 1..Len(calls) :
                    calls[i].call = "teardown" =>
                        \E j \in 1..(i - 1) : calls[j].call = "run" /\ calls[j].ok
              /\ \A i \in 1..Len(calls) :
                    calls[i].call = "persist_log" =>
                        \E j \in 1..(i - 1) : calls[j].call = "teardown" /\ calls[j].ok
              /\ \A i \in 1..Len(calls) :
                    (calls[i].call \in SetupCalls \cup RunCalls /\ ~calls[i].ok) =>
                        /\ i = Len(calls)
                        /\ Last(orch_calls) = calls[i]
                        /\ orch_result = Some(Err(calls[i].call))
                        /\ orch_pc = "failed"
    /\ orch_pc \in ExecutorCalls =>
          \A i \in 1..Len(orch_calls) :
              orch_calls[i].mode = orch_config.modes[mode_index] =>
                  orch_calls[i].call \in ExecutorCalls \cup {"context"}
    /\ orch_config.skip_setup =>
          \A i \in 1..Len(orch_calls) : orch_calls[i].call \notin SetupCalls
    /\ orch_config.skip_run =>
          \A i \in 1..Len(orch_calls) :
              orch_calls[i].call \notin RunCalls \cup {"teardown", "persist_log"}
    /\ (RunExecutorEntered /\ ~orch_config.skip_setup) => orch_pc = "setup"
    /\ (RunExecutorEntered /\ orch_config.skip_setup /\ ~orch_config.skip_run) =>
          orch_pc \in {"mongo_tracer_start", "run"}
    /\ (orch_calls # <<>> /\ Last(orch_calls).call = "run" /\ Last(orch_calls).ok) =>
          orch_pc \in {"mongo_tracer_stop", "teardown"}

(* with skip_run and without skip_setup, the setup of Walltime was made    *)
(* and run_executor returned Ok with no run, teardown or log persistence   *)
C34_Witness ==
    /\ orch_config.skip_run
    /\ ~orch_config.skip_setup
    /\ orch_config.mongodb
    /\ orch_config.modes = <<"Walltime">>
    /\ completed_runs = <<"Walltime">>
    /\ [i \in 1..Len(orch_calls) |-> orch_calls[i].call] =
          <<"context", "setup", "install_mongodb_tracer">>


(* the calls of the upload phase of execute *)
UploadPhaseCalls == {"set_oidc_token", "upload", "poll_results"}

(* the modes of the calls `call` of the log, in the order of the calls *)
ModesOfCalls(call) ==
    LET made == SelectSeq(orch_calls, LAMBDA c : c.call = call)
    IN  [i \in 1..Len(made) |-> made[i].mode]

IsPrefixOf(s, t) == Len(s) <= Len(t) /\ \A i \in 1..Len(s) : s[i] = t[i]

(* C35: execute uploads only after the executor of every mode completed;   *)
(* when any executor call fails nothing is uploaded, for any mode; with    *)
(* skip_upload nothing is uploaded; the uploads are made in the order the  *)
(* modes ran; poll_results is called after an upload only when the         *)
(* orchestrator is local; the OIDC token is refreshed before each upload   *)
(* only when it is not local.                                              *)
C35_UploadAfterAllExecutors ==
    /\ \A i \in 1..Len(orch_calls) :
          orch_calls[i].call \in UploadPhaseCalls =>
              /\ completed_runs = orch_config.modes
              /\ ~orch_config.skip_upload
              /\ \A m \in Range(orch_config.modes) :
                    \E j \in 1..(i - 1) :
                        /\ orch_calls[j].mode = m
                        /\ orch_calls[j].call \notin UploadPhaseCalls
                        /\ orch_calls[j].ok
              /\ \A j \in 1..Len(orch_calls) :
                    orch_calls[j].call \notin UploadPhaseCalls => (j < i /\ orch_calls[j].ok)
    /\ IsPrefixOf(completed_runs, orch_config.modes)
    /\ IsPrefixOf(orch_config.modes, ModesOfCalls("context")) \/
          IsPrefixOf(ModesOfCalls("context"), orch_config.modes)
    /\ IsPrefixOf(ModesOfCalls("upload"), ModesOfCalls("context"))
    /\ \A i \in 1..Len(orch_calls) :
          /\ orch_calls[i].call = "poll_results" =>
                /\ orch_config.is_local
                /\ i > 1
                /\ orch_calls[i - 1] = OrchCall("upload", orch_calls[i].mode, TRUE)
          /\ orch_calls[i].call = "set_oidc_token" => ~orch_config.is_local
          /\ orch_calls[i].call = "upload" =>
                IF orch_config.is_local
                THEN i > 1 /\ orch_calls[i - 1].call # "set_oidc_token"
                ELSE /\ i > 1
                     /\ orch_calls[i - 1] = OrchCall("set_oidc_token", orch_calls[i].mode, TRUE)
    /\ (orch_calls # <<>> /\ Last(orch_calls).call = "upload" /\ Last(orch_calls).ok
            /\ orch_config.is_local) => orch_pc = "poll_results"
    /\ (orch_pc = "done" /\ ~orch_config.skip_upload) =>
          ModesOfCalls("upload") = orch_config.modes
    /\ orch_pc = "done" <=> orch_result = Some(Ok(<<>>))

(* a local orchestrator ran two modes, then uploaded and polled each *)
C35_Witness ==
    /\ orch_pc = "done"
    /\ orch_config.is_local
    /\ Len(orch_config.modes) = 2
    /\ ModesOfCalls("upload") = orch_config.modes
    /\ ModesOfCalls("poll_results") = orch_config.modes

---------------------------------------------------------------------------
(* Properties of setup_environment (checked under SpecSetup).              *)

ReadsOf(knob) == SelectSeq(knob_reads, LAMBDA r : r.knob = knob)
ElevatedOf(knob) == SelectSeq(elevated_commands, LAMBDA c : c.knob = knob)

(* the knob was read, and the value read is not the permissive one *)
ReadNotPermissive(knob, permissive) ==
    \E i \in 1..Len(knob_reads) :
        /\ knob_reads[i].knob = knob
        /\ knob_reads[i].value.ok
        /\ knob_reads[i].value.val # permissive

(* `sysctl -w knob=permissive` is run under elevation exactly when the     *)
(* value read differs from the permissive one                              *)
WrittenIffNotPermissive(knob, permissive, writing) ==
    /\ Len(ReadsOf(knob)) <= 1
    /\ Len(ElevatedOf(knob)) <= 1
    /\ \A i \in 1..Len(ElevatedOf(knob)) : ElevatedOf(knob)[i].value = permissive
    /\ ElevatedOf(knob) # <<>> => ReadNotPermissive(knob, permissive)
    /\ ReadNotPermissive(knob, permissive) =>
          (ElevatedOf(knob) # <<>> \/ setup_pc = writing)

(* C36: setup_environment runs `sysctl -w kernel.kptr_restrict=0` under    *)
(* elevation iff the value read is not 0, and                              *)
(* `sysctl -w kernel.perf_event_paranoid=-1` iff the value read is not -1; *)
(* when both values are already permissive no elevated command is run; a   *)
(* failure to read or to set either knob makes the setup fail.             *)
C36_KnobsWrittenOnlyWhenNeeded ==
    /\ WrittenIffNotPermissive(KptrRestrict, 0, "set_kptr_restrict")
    /\ WrittenIffNotPermissive(PerfEventParanoid, -1, "set_perf_event_paranoid")
    /\ (setup_pc = "done" /\ knob_reads = <<[knob |-> KptrRestrict, value |-> Ok(0)],
                                            [knob |-> PerfEventParanoid, value |-> Ok(-1)]>>)
          => elevated_commands = <<>>
    /\ (\E i \in 1..Len(knob_reads) : ~knob_reads[i].value.ok) =>
          /\ setup_pc = "failed"
          /\ ~Last(knob_reads).value.ok
          /\ setup_result = Some(Last(knob_reads).value)
    /\ (\E i \in 1..Len(elevated_commands) : ~elevated_commands[i].ok) =>
          /\ setup_pc = "failed"
          /\ IsSome(setup_result) /\ ~setup_result.val.ok
    /\ setup_pc = "done" <=> setup_result = Some(Ok(<<>>))
    /\ setup_pc = "done" =>
          /\ Len(knob_reads) = 2
          /\ \A i \in 1..2 : knob_reads[i].value.ok
          /\ \A i \in 1..Len(elevated_commands) : elevated_commands[i].ok

(* kernel.kptr_restrict was read as 1 and set to 0 under elevation,        *)
(* kernel.perf_event_paranoid was read as -1 and left alone                *)
C36_Witness ==
    /\ setup_pc = "done"
    /\ knob_reads = <<[knob |-> KptrRestrict, value |-> Ok(1)],
                      [knob |-> PerfEventParanoid, value |-> Ok(-1)]>>
    /\ elevated_commands = <<[knob |-> KptrRestrict, value |-> 0, ok |-> TRUE]>>

(* both knobs were read as permissive and no elevated command was run *)
C36_WitnessPermissive ==
    /\ setup_pc = "done"
    /\ knob_reads = <<[knob |-> KptrRestrict, value |-> Ok(0)],
                      [knob |-> PerfEventParanoid, value |-> Ok(-1)]>>
    /\ elevated_commands = <<>>

---------------------------------------------------------------------------
(* The parallel write phases of save_artifacts (checked under Spec).       *)

(* the tasks target pairwise distinct files, and every schedule of their   *)
(* steps leaves the same files with the same contents: each target holds   *)
(* the contents of its one task                                            *)
WritesIndependent(tasks) ==
    /\ \A q, r \in DOMAIN tasks : q # r => tasks[q].target # tasks[r].target
    /\ \A s \in Interleavings(DOMAIN tasks) :
          LET written == run_writes(tasks, s, Len(s))
          IN  /\ DOMAIN written = {tasks[q].target : q \in DOMAIN tasks}
              /\ \A q \in DOMAIN tasks : written[tasks[q].target] = tasks[q].contents

(* the key table covers the module index: register_paths has run *)
PathsRegistered ==
    /\ pc \in {"save_symbols", "save_debug_info", "save_unwind_data", "collect"}
    /\ DOMAIN loaded_modules_by_path \subseteq DOMAIN path_to_key

(* C37: in the parallel write phases no two tasks write the same file: the *)
(* tasks of save_symbols target pairwise distinct <key>.symbols.map files, *)
(* the tasks of save_unwind_data pairwise distinct <key>.unwind_data       *)
(* files, and every interleaving of the writers yields the same files with *)
(* the same contents.                                                      *)
C37_ParallelWritesDisjoint ==
    /\ pc \in {"save_symbols", "save_debug_info", "save_unwind_data", "collect"} =>
          PathsRegistered
    /\ PathsRegistered =>
          LET symbol_tasks == symbol_write_tasks(loaded_modules_by_path, path_to_key)
              unwind_tasks == unwind_write_tasks(loaded_modules_by_path, path_to_key)
          IN  /\ WritesIndependent(symbol_tasks)
              /\ WritesIndependent(unwind_tasks)
              /\ symbol_files(loaded_modules_by_path, path_to_key) =
                    {symbol_tasks[q].target : q \in DOMAIN symbol_tasks}
              /\ unwind_files(loaded_modules_by_path, path_to_key) =
                    {unwind_tasks[q].target : q \in DOMAIN unwind_tasks}
              /\ pc # "save_symbols" =>
                    \A q \in DOMAIN symbol_tasks :
                        /\ symbol_tasks[q].target \in DOMAIN files
                        /\ files[symbol_tasks[q].target] = 1
              /\ pc = "collect" =>
                    \A q \in DOMAIN unwind_tasks : unwind_tasks[q].target \in DOMAIN files

(* both phases ran over an index of two modules that share a file name,    *)
(* each with symbols and unwind data, and left two files of each kind      *)
C37_Witness ==
    /\ pc = "collect"
    /\ DOMAIN symbol_write_tasks(loaded_modules_by_path, path_to_key) = {PathAX, PathBX}
    /\ DOMAIN unwind_write_tasks(loaded_modules_by_path, path_to_key) = {PathAX, PathBX}
    /\ Cardinality(symbol_files(loaded_modules_by_path, path_to_key)) = 2
    /\ Cardinality(unwind_files(loaded_modules_by_path, path_to_key)) = 2
    /\ symbol_files(loaded_modules_by_path, path_to_key) \subseteq DOMAIN files
    /\ unwind_files(loaded_modules_by_path, path_to_key) \subseteq DOMAIN files

---------------------------------------------------------------------------
(* The module index under MMAP2 records (checked under SpecParse).         *)

(* the record is an MMAP2 that passes the PID filter and the filters of    *)
(* process_mmap2_record: executable, not "//anon", not bracketed           *)
AcceptedMmap2(rec, passes) ==
    /\ rec.type = "MMAP2"
    /\ passes
    /\ HasBit(rec.protection, PROT_EXEC)
    /\ ~is_anon_path(rec.path)
    /\ ~is_bracketed_path(rec.path)

(* ModuleSymbols::compute_load_bias for the mapping of the record *)
LoadBiasOf(rec) ==
    compute_load_bias(fs.elf, rec.path, rec.address, rec.address + rec.length, rec.page_offset)

(* the (path, pid) pairs that have a PID entry in the index *)
PidEntries(modules) ==
    {e \in (DOMAIN modules) \X Pids : e[2] \in pids_of(modules[e[1]])}

(* a step that reads one record *)
ReadsRecord == pc = "parse_loop" /\ n_read' = n_read + 1

(* C38: an accepted MMAP2 whose load-bias computation fails leaves the     *)
(* module index unchanged; every PID entry of the index has                *)
(* symbols_load_bias = Some; the PID entry of a (path, pid) is created at  *)
(* most once, and a later MMAP2 of the same (path, pid) overwrites its     *)
(* load bias with the latest value.                                        *)
C38_FailedLoadBiasLeavesIndex ==
    /\ [](\A e \in PidEntries(loaded_modules_by_path) :
             IsSome(loaded_modules_by_path[e[1]].process_loaded_modules[e[2]].symbols_load_bias))
    /\ [][(ReadsRecord /\ AcceptedMmap2(record', included') /\ ~LoadBiasOf(record').ok) =>
             loaded_modules_by_path' = loaded_modules_by_path]_vars
    /\ [][(ReadsRecord /\ AcceptedMmap2(record', included') /\ LoadBiasOf(record').ok) =>
             /\ PidEntries(loaded_modules_by_path') =
                   PidEntries(loaded_modules_by_path) \cup {<<record'.path, record'.pid>>}
             /\ loaded_modules_by_path'[record'.path].process_loaded_modules[record'.pid]
                   .symbols_load_bias = Some(LoadBiasOf(record').val)
             /\ \A e \in PidEntries(loaded_modules_by_path) \ {<<record'.path, record'.pid>>} :
                   loaded_modules_by_path'[e[1]].process_loaded_modules[e[2]] =
                       loaded_modules_by_path[e[1]].process_loaded_modules[e[2]]]_vars
    /\ [][PidEntries(loaded_modules_by_path) \subseteq PidEntries(loaded_modules_by_path')]_vars

(* pid 100 mapped /a/x twice with different load biases, the index holds   *)
(* the latest one, and then an accepted MMAP2 of a path that is no ELF     *)
(* file was read and left no entry                                         *)
C38_Witness ==
    /\ pc = "parse_loop"
    /\ n_read = 3
    /\ AcceptedMmap2(record, included)
    /\ ~LoadBiasOf(record).ok
    /\ record.path \notin DOMAIN loaded_modules_by_path
    /\ <<PathAX, 100>> \in PidEntries(loaded_modules_by_path)
    /\ <<PathAX, 100>> \in DOMAIN last_mmap
    /\ elf_calls[PathAX]["compute_load_bias"] = 2
    /\ loaded_modules_by_path[PathAX].process_loaded_modules[100].symbols_load_bias =
          Some(compute_load_bias(fs.elf, PathAX, last_mmap[<<PathAX, 100>>][1],
                                 last_mmap[<<PathAX, 100>>][1] + PAGE_SIZE,
                                 last_mmap[<<PathAX, 100>>][2]).val)


(* parse_for_memmap2 has returned its MemmapRecordsOutput *)
ParseReturned == pc = "harvest"

(* C39: for either PID filter, every PID that has an entry in a            *)
(* LoadedModule of the returned index is in the returned tracked_pids;     *)
(* under TrackedPids the tracked set only grows during parsing, and the    *)
(* initial set is contained in the result.                                 *)
C39_IndexPidsAreTracked ==
    /\ [](ParseReturned =>
             \A e \in PidEntries(loaded_modules_by_path) : e[2] \in tracked_pids)
    /\ [](pc = "parse_loop" =>
             \A e \in PidEntries(loaded_modules_by_path) : should_include(pid_filter, e[2]))
    /\ [][(pc = "parse_loop" /\ pid_filter.kind = "TrackedPids") =>
             /\ pid_filter'.kind = "TrackedPids"
             /\ pid_filter.tracked \subseteq pid_filter'.tracked
             /\ pc' = "harvest" => tracked_pids' = pid_filter.tracked]_vars
    /\ []((ParseReturned /\ pid_filter.kind = "TrackedPids") =>
             fifo_data.bench_pids \subseteq tracked_pids)
    /\ [][(pc = "save_to" /\ pc' = "parse_open" /\ pid_filter'.kind = "TrackedPids") =>
             pid_filter'.tracked = fifo_data.bench_pids]_vars

(* the parse started with TrackedPids({100}), a FORK added 200, a mapping  *)
(* of 200 entered the index, and the returned tracked_pids holds both      *)
C39_Witness ==
    /\ ParseReturned
    /\ pid_filter.kind = "TrackedPids"
    /\ fifo_data.bench_pids = {100}
    /\ tracked_pids = {100, 200}
    /\ <<PathAX, 200>> \in PidEntries(loaded_modules_by_path)

(* with the filter All the returned tracked_pids are the pids of the index *)
C39_WitnessAll ==
    /\ ParseReturned
    /\ pid_filter.kind = "All"
    /\ tracked_pids = {100, 300}
    /\ {e[2] : e \in PidEntries(loaded_modules_by_path)} = {100, 300}

=============================================================================
